---- MODULE Spec2Model ----
(***************************************************************************)
(* A model of react-loads' useLoads hook (src/unnamed/part_000, the        *)
(* repository's useLoads.ts): the per-consumer reducer, the load           *)
(* coordinator, the commit path (handleLoading / handleData), the          *)
(* broadcast to the subscribers of a cache key, and React's render /       *)
(* effect cycle as far as the hook depends on it.                          *)
(*                                                                         *)
(* One step of the model is one JavaScript task: an event handler (a       *)
(* timer, a promise settlement, a user call, a mount) run to completion,   *)
(* and the re-renders React does because of it.                            *)
(*                                                                         *)
(* Time is counted in ticks; a cache record carries the number of ticks    *)
(* since it was written (new Date() - record.updated).                     *)
(***************************************************************************)
EXTENDS Integers, Sequences, FiniteSets, TLC

VARIABLES
    cfg,          \* per consumer: the merged config of useLoads (static)
    props,        \* per consumer: the context and variables it is called with
    phase,        \* per consumer: "init", "mounted" or "unmounted"
    hasMounted,   \* per instance: useDetectMounted's hasMounted ref
    record,       \* per consumer: the useReducer state (the local record)
    counter,      \* per instance: the counter ref
    rendered,     \* per consumer: what the last committed render closed over
    cachedRecord, \* per consumer: the useMemo'd cachedRecord
    dirty,        \* per consumer: a dispatch happened, a re-render is due
    timers,       \* per instance: the pending setTimeout callbacks
    timerRef,     \* per instance: the ids the three useTimeout refs hold
    ops,          \* the user operations (promises) that have not settled
    records,      \* cache.records
    promises,     \* cache.promises
    suspenders,   \* cache.suspenders
    updaters,     \* cache.updaters
    revalidators, \* cache.revalidators
    calls,        \* history: per instance, how often it invoked the operation
    shorted,      \* history: per key, how many loads the suspense flag short-circuited
    retry,        \* the retry the catch callback of load scheduled last
    returned      \* how the promise a load returned settled, as its caller saw it last

vars == <<cfg, props, phase, hasMounted, record, counter, rendered, cachedRecord,
          dirty, timers, timerRef, ops, records, promises, suspenders, updaters,
          revalidators, calls, shorted, retry, returned>>

----------------------------------------------------------------------------
(* Bounds of the model *)

\* loads the hook instances may start altogether (the cap on the sum of the counter refs)
MaxLoads == 4
\* config.dedupingInterval, in ticks
DedupingInterval == 1
\* config.revalidateTime, in ticks
RevalidateTime == 2
\* the values of counter.current the retry delay is computed for
MaxAttempts == 10
\* Math.random() is one of 0/RandomSteps .. (RandomSteps - 1)/RandomSteps
RandomSteps == 8

\* elapsed times are only compared with the two intervals above
MaxElapsed == IF RevalidateTime > DedupingInterval THEN RevalidateTime ELSE DedupingInterval

Consumers == {1, 2}
Ghost(c) == c + 10
Insts == Consumers \cup {Ghost(c) : c \in Consumers}
Cons(i) == IF i \in Consumers THEN i ELSE i - 10
IsGhost(i) == i \notin Consumers

----------------------------------------------------------------------------
(* Values *)

Undefined == "undefined"

IDLE == "idle"
PENDING == "pending"
PENDING_SLOW == "pending-slow"
RESOLVED == "resolved"
REJECTED == "rejected"
RELOADING == "reloading"
RELOADING_SLOW == "reloading-slow"
STATES == {IDLE, PENDING, PENDING_SLOW, RESOLVED, REJECTED, RELOADING, RELOADING_SLOW}

CACHE_AND_LOAD == "cache-and-load"
CACHE_FIRST == "cache-first"
CACHE_ONLY == "cache-only"
LOAD_ONLY == "load-only"
LOAD_POLICIES == {CACHE_AND_LOAD, CACHE_FIRST, CACHE_ONLY, LOAD_ONLY}

CONTEXT_AND_VARIABLES == "context-and-variables"
CONTEXT_ONLY == "context-only"

\* what the operation can fulfil with, and reject with
Responses == {"r1", "r2"}
Errors == {"e1"}
\* what an operation in optimistic form passes to setResponse and setError
Provisional == {"d1"}

\* config.variables: absent, a value list, or a function that throws
NoVariables == [kind |-> "undefined", vals |-> <<>>]
ArrayVariables(s) == [kind |-> "array", vals |-> s]
ThrowingVariables == [kind |-> "throws", vals |-> <<>>]

\* the argument list an invocation passes to the operation: vals spread `wrap`
\* arrays deep (wrap = 0: fn(...vals), wrap = 1: fn(vals), ...); spreadable is
\* false when the list is not iterable (the variables function itself)
NoArgs == [vals |-> <<>>, wrap |-> 0, spreadable |-> TRUE]

IDLE_RECORD == [state |-> IDLE, response |-> Undefined, error |-> Undefined, isCached |-> FALSE]

\* a key of cache.records without a record
NoRecord == [state |-> "none", response |-> Undefined, error |-> Undefined, elapsed |-> 0]
Exists(rec) == rec.state # "none"

NoPromise == <<>>
NoTimerIds == [delay |-> 0, slow |-> 0, retry |-> 0]

DefaultConfig ==
    [ cacheStrategy |-> CONTEXT_AND_VARIABLES,
      defer |-> FALSE,
      delay |-> FALSE,
      initialResponse |-> Undefined,
      loadPolicy |-> CACHE_AND_LOAD,
      pollingInterval |-> FALSE,
      pollWhenHidden |-> FALSE,
      rejectRetryInterval |-> FALSE,
      revalidateOnWindowFocus |-> FALSE,
      revalidateTime |-> RevalidateTime,
      suspense |-> FALSE,
      throwError |-> FALSE,
      timeout |-> FALSE ]

----------------------------------------------------------------------------
(* Cache key *)

\* the values in a variables array are the numbers 1, 2, ... and three values
\* that JSON has no notation of their own for
Null == -1
UndefinedValue == -2
NaN == -3

\* JSON.stringify of a value in an array: undefined and NaN are written as null
JsonOf(x) == IF x \in {Null, UndefinedValue, NaN} THEN "null" ELSE ToString(x)

RECURSIVE Join(_)
Join(s) ==
    IF s = <<>> THEN ""
    ELSE IF Len(s) = 1 THEN JsonOf(Head(s))
    ELSE JsonOf(Head(s)) \o "," \o Join(Tail(s))

\* JSON.stringify(variables): undefined for undefined and for a function
Stringify(v) == IF v.kind = "array" THEN "[" \o Join(v.vals) \o "]" ELSE Undefined

getCacheKey(context, variablesHash, cacheStrategy) ==
    IF context = Undefined THEN Undefined
    ELSE IF variablesHash # Undefined /\ cacheStrategy = CONTEXT_AND_VARIABLES
         THEN context \o "." \o variablesHash
         ELSE context

\* the props a consumer may be rendered with
PropsA == [context |-> "a", variables |-> NoVariables]
PropsB == [context |-> "b", variables |-> NoVariables]
PropsA1 == [context |-> "a", variables |-> ArrayVariables(<<1>>)]
PropsB1 == [context |-> "b", variables |-> ArrayVariables(<<1>>)]
PropsA2 == [context |-> "a", variables |-> ArrayVariables(<<2>>)]
PropsNone == [context |-> Undefined, variables |-> NoVariables]
PropsThrows == [context |-> "a", variables |-> ThrowingVariables]

PropsANull == [context |-> "a", variables |-> ArrayVariables(<<Null>>)]
PropsAUndefined == [context |-> "a", variables |-> ArrayVariables(<<UndefinedValue>>)]
PropsA12 == [context |-> "a", variables |-> ArrayVariables(<<1, 2>>)]

PropsChoices == {PropsA, PropsB, PropsA1, PropsB1, PropsA2, PropsNone, PropsThrows,
                 PropsANull, PropsAUndefined, PropsA12}

\* a key that always includes the variables, whatever the strategy
KeyOfEveryStrategy(c, p) ==
    getCacheKey(p.context, Stringify(p.variables), CONTEXT_AND_VARIABLES)

KeyOf(c, p) == getCacheKey(p.context, Stringify(p.variables), cfg[c].cacheStrategy)

Keys ==
    { getCacheKey(p.context, Stringify(p.variables), s) :
        p \in PropsChoices, s \in {CONTEXT_AND_VARIABLES, CONTEXT_ONLY} }

\* lines 712-721: defer is forced when the variables function throws
DeferOf(c, p) == cfg[c].defer \/ p.variables.kind = "throws"

\* `variables &&`: an array and a function are truthy
Truthy(v) == v.kind # "undefined"

----------------------------------------------------------------------------
(* The state the handlers read and write, as one value.  A handler is an   *)
(* operator from a world to a world; an action applies handlers to the     *)
(* current world and stores the result.                                    *)

World ==
    [ props |-> props, phase |-> phase, hasMounted |-> hasMounted, record |-> record,
      counter |-> counter, rendered |-> rendered, cachedRecord |-> cachedRecord,
      dirty |-> dirty, timers |-> timers, timerRef |-> timerRef, ops |-> ops,
      records |-> records, promises |-> promises, suspenders |-> suspenders,
      updaters |-> updaters, revalidators |-> revalidators, calls |-> calls,
      shorted |-> shorted ]

Becomes(w) ==
    /\ props' = w.props
    /\ phase' = w.phase
    /\ hasMounted' = w.hasMounted
    /\ record' = w.record
    /\ counter' = w.counter
    /\ rendered' = w.rendered
    /\ cachedRecord' = w.cachedRecord
    /\ dirty' = w.dirty
    /\ timers' = w.timers
    /\ timerRef' = w.timerRef
    /\ ops' = w.ops
    /\ records' = w.records
    /\ promises' = w.promises
    /\ suspenders' = w.suspenders
    /\ updaters' = w.updaters
    /\ revalidators' = w.revalidators
    /\ calls' = w.calls
    /\ shorted' = w.shorted
    /\ cfg' = cfg

----------------------------------------------------------------------------
(* cache.records, useTimeout *)

\* cache.records.get(key)
RecordsGet(w, key) == IF key = Undefined THEN NoRecord ELSE w.records[key]

\* cache.records.set(key, record): the record is stamped with the time of the write
RecordsSet(w, key, rec) ==
    [w EXCEPT !.records[key] =
        [state |-> rec.state, response |-> rec.response, error |-> rec.error, elapsed |-> 0]]

\* the callback of useTimeout's setTimeout: the ref keeps the newest id only
SetTimer(w, i, t) ==
    [w EXCEPT !.timers[i] = @ \cup {t}, !.timerRef[i][t.kind] = t.id]

\* the callback of useTimeout's clearTimeout: clears the timer the ref holds
ClearTimer(w, i, kind) ==
    [w EXCEPT !.timers[i] = {t \in @ : ~(t.kind = kind /\ t.id = w.timerRef[i][kind])}]

----------------------------------------------------------------------------
(* The reducer and the commit path *)

\* a reducer that keeps the response when a load is rejected
reducerKeepsResponse(state, action) ==
    CASE action.type = IDLE -> IDLE_RECORD
      [] action.type = RESOLVED ->
            [state |-> RESOLVED, response |-> action.response, error |-> Undefined,
             isCached |-> action.isCached]
      [] action.type = REJECTED ->
            [state |-> REJECTED, response |-> state.response, error |-> action.error,
             isCached |-> action.isCached]
      [] action.type = RELOADING_SLOW -> [state EXCEPT !.state = RELOADING]
      [] OTHER -> [state EXCEPT !.state = action.type]

reducer(state, action) ==
    CASE action.type = IDLE -> IDLE_RECORD
      [] action.type = PENDING -> [state EXCEPT !.state = PENDING]
      [] action.type = PENDING_SLOW -> [state EXCEPT !.state = PENDING_SLOW]
      [] action.type = RESOLVED ->
            [state |-> RESOLVED, response |-> action.response, error |-> Undefined,
             isCached |-> action.isCached]
      [] action.type = REJECTED ->
            [state |-> REJECTED, response |-> Undefined, error |-> action.error,
             isCached |-> action.isCached]
      [] action.type = RELOADING -> [state EXCEPT !.state = RELOADING]
      [] action.type = RELOADING_SLOW -> [state EXCEPT !.state = RELOADING]
      [] OTHER -> state

\* dispatch of the instance's useReducer: React drops the update of a component
\* that is not mounted, and re-renders a mounted one
dispatch(w, i, action) ==
    IF i \in Consumers /\ w.phase[i] = "mounted"
    THEN [w EXCEPT !.record[i] = reducer(@, action), !.dirty[i] = TRUE]
    ELSE w

\* the action handleData and load build from a record: { type: record.state, isCached, ...record }
ActionOf(rec, isCached) ==
    [type |-> rec.state, isCached |-> isCached, response |-> rec.response, error |-> rec.error]

\* handleLoading without its test of the cache key
handleLoadingUnkeyed(w, i, cacheKey, isReloading, isSlow, promise) ==
    LET w1 == dispatch(w, i, [type |-> IF isReloading THEN RELOADING ELSE PENDING,
                              isCached |-> FALSE, response |-> Undefined, error |-> Undefined])
        old == RecordsGet(w1, cacheKey)
    IN  RecordsSet(w1, cacheKey,
                   [old EXCEPT !.state = IF isReloading THEN RELOADING ELSE PENDING])

handleLoading(w, i, cacheKey, isReloading, isSlow, promise) ==
    LET reloadingState == IF isSlow THEN RELOADING_SLOW ELSE RELOADING
        pendingState == IF isSlow THEN PENDING_SLOW ELSE PENDING
        w1 == dispatch(w, i, [type |-> IF isReloading THEN reloadingState ELSE pendingState,
                              isCached |-> FALSE, response |-> Undefined, error |-> Undefined])
        old == RecordsGet(w1, cacheKey)
        w2 == RecordsSet(w1, cacheKey,
                         [old EXCEPT !.state = IF isReloading THEN RELOADING ELSE PENDING])
    IN  IF cacheKey = Undefined THEN w1
        ELSE IF ~isReloading THEN [w2 EXCEPT !.promises[cacheKey] = promise]
        ELSE w2

\* the guard without its comparison of the counts
IsCurrentAnyCount(w, i, count) == w.hasMounted[i]

\* the guard of handleData (line 814); count = 0 stands for no count (a broadcast)
IsCurrent(w, i, count) == w.hasMounted[i] /\ (count = 0 \/ count = w.counter[i])

\* a handleData that writes the record of a stale completion into the cache
handleDataLocalCachingStale(w, i, cacheKey, count, rec) ==
    IF ~IsCurrent(w, i, count)
    THEN IF cacheKey = Undefined THEN w ELSE RecordsSet(w, cacheKey, rec)
    ELSE
        LET w1 == ClearTimer(ClearTimer(w, i, "delay"), i, "slow")
            w2 == dispatch(w1, i, ActionOf(rec, cacheKey # Undefined))
            w3 == RecordsSet(w2, cacheKey, rec)
            isSuspended == w3.suspenders[cacheKey]
        IN  IF cacheKey = Undefined THEN w2
            ELSE [w3 EXCEPT !.suspenders[cacheKey] = IF isSuspended = Undefined THEN "true" ELSE "false",
                            !.promises[cacheKey] = NoPromise]

\* handleData without its broadcast: lines 814-833
handleDataLocal(w, i, cacheKey, count, rec) ==
    IF ~IsCurrent(w, i, count) THEN w
    ELSE
        LET w1 == ClearTimer(ClearTimer(w, i, "delay"), i, "slow")
            w2 == dispatch(w1, i, ActionOf(rec, cacheKey # Undefined))
            w3 == RecordsSet(w2, cacheKey, rec)
            isSuspended == w3.suspenders[cacheKey]
        IN  IF cacheKey = Undefined THEN w2
            ELSE [w3 EXCEPT !.suspenders[cacheKey] = IF isSuspended = Undefined THEN "true" ELSE "false",
                            !.promises[cacheKey] = NoPromise]

\* broadcastChanges: every updater of the key is called with shouldBroadcast: false
RECURSIVE broadcastChanges(_, _, _, _)
broadcastChanges(w, list, cacheKey, rec) ==
    IF list = <<>> THEN w
    ELSE broadcastChanges(handleDataLocal(w, Head(list), cacheKey, 0, rec),
                          Tail(list), cacheKey, rec)

\* handleData that never calls broadcastChanges
handleDataWithoutBroadcast(w, i, cacheKey, count, rec, shouldBroadcast) ==
    handleDataLocal(w, i, cacheKey, count, rec)

handleData(w, i, cacheKey, count, rec, shouldBroadcast) ==
    LET w1 == handleDataLocal(w, i, cacheKey, count, rec)
    IN  IF IsCurrent(w, i, count) /\ cacheKey # Undefined /\ shouldBroadcast
        THEN broadcastChanges(w1, w1.updaters[cacheKey], cacheKey, rec)
        ELSE w1

\* the second argument of setResponse / setError: absent (or a callback), or
\* an object that names a context and variables
NoTarget == [present |-> FALSE, context |-> Undefined, variables |-> NoVariables]
Target(p) == [present |-> TRUE, context |-> p.context, variables |-> p.variables]

\* lines 860-864
OptimisticCacheKey(c, cacheKey, target) ==
    IF target.present
    THEN getCacheKey(target.context, Stringify(target.variables), cfg[c].cacheStrategy)
    ELSE cacheKey

\* lines 874-878
NewRecord(state, newData) ==
    [state |-> state,
     response |-> IF state = RESOLVED THEN newData ELSE Undefined,
     error |-> IF state = REJECTED THEN newData ELSE Undefined]

\* an optimistic update that commits to the caller's key as well as to the key it names
handleOptimisticDataOnBothKeys(w, i, cacheKey, data, target, state, count) ==
    LET optimisticCacheKey == OptimisticCacheKey(Cons(i), cacheKey, target)
        w1 == handleData(w, i, cacheKey, count, NewRecord(state, data), TRUE)
    IN  IF optimisticCacheKey = Undefined \/ cacheKey = optimisticCacheKey THEN w1
        ELSE RecordsSet(w1, optimisticCacheKey, NewRecord(state, data))

\* an optimistic update that only writes the record of the key into the cache
handleOptimisticDataCacheOnly(w, i, cacheKey, data, target, state, count) ==
    LET optimisticCacheKey == OptimisticCacheKey(Cons(i), cacheKey, target)
    IN  IF optimisticCacheKey = Undefined THEN w
        ELSE RecordsSet(w, optimisticCacheKey, NewRecord(state, data))

\* handleOptimisticData (lines 844-889) for data that is a value; count is the
\* count of the load whose operation calls setResponse or setError
handleOptimisticData(w, i, cacheKey, data, target, state, count) ==
    LET optimisticCacheKey == OptimisticCacheKey(Cons(i), cacheKey, target)
    IN  IF optimisticCacheKey = Undefined \/ cacheKey = optimisticCacheKey
        THEN handleData(w, i, cacheKey, count, NewRecord(state, data), TRUE)
        ELSE RecordsSet(w, optimisticCacheKey, NewRecord(state, data))

----------------------------------------------------------------------------
(* load *)

\* what a render closes over: the values the callbacks of that render read
Closure(cacheKey, variables, isSameVariables, isSameContext, defer) ==
    [cacheKey |-> cacheKey, variables |-> variables, isSameVariables |-> isSameVariables,
     isSameContext |-> isSameContext, defer |-> defer]

\* `args = variables`
VariablesArgs(v) == [vals |-> v.vals, wrap |-> 0, spreadable |-> v.kind = "array"]

\* load()() and load()(x): the arguments the caller passes
NotGiven == [present |-> FALSE, args |-> NoArgs]
Given(a) == [present |-> TRUE, args |-> a]

\* a suppression that does not ask whether the consumer has variables
IsSuppressedWithoutVariables(cl, manual) == ~manual /\ cl.isSameVariables

\* the steps of load that decide whether the operation runs (lines 894-932)
IsSuppressed(cl, manual) == ~manual /\ Truthy(cl.variables) /\ cl.isSameVariables

\* a short-circuit for every key whose flag has ever been set
IsShortCircuitedOnceSet(w, c, cl) ==
    /\ cl.cacheKey # Undefined
    /\ cfg[c].suspense
    /\ w.suspenders[cl.cacheKey] # Undefined

IsShortCircuited(w, c, cl) ==
    /\ cl.cacheKey # Undefined
    /\ cfg[c].suspense
    /\ w.suspenders[cl.cacheKey] = "true"

\* the cachedRecord of load (line 915)
LoadCached(w, c, cl) ==
    IF cl.cacheKey # Undefined /\ cfg[c].loadPolicy # LOAD_ONLY
    THEN RecordsGet(w, cl.cacheKey)
    ELSE NoRecord

\* a load that never takes a record for a duplicate
IsDuplicateNever(rec, manual) == FALSE

IsDuplicate(rec, manual) == rec.elapsed < DedupingInterval /\ ~manual

\* a load that never skips for the cache-first policy
IsCachedWithCacheFirstNever(c, rec, manual) == FALSE

IsCachedWithCacheFirst(c, rec, manual) ==
    /\ ~(rec.elapsed >= cfg[c].revalidateTime)
    /\ ~manual
    /\ cfg[c].loadPolicy = CACHE_FIRST

IsSkipped(w, c, cl, manual) ==
    LET cached == LoadCached(w, c, cl)
    IN  /\ ~cl.defer
        /\ Exists(cached)
        /\ cached.state \in {RESOLVED, REJECTED}
        /\ (IsDuplicate(cached, manual) \/ IsCachedWithCacheFirst(c, cached, manual))

\* line 954
IsReloading(w, c, cl, count) ==
    cl.isSameContext
        /\ (count > 1 \/ Exists(LoadCached(w, c, cl)) \/ cfg[c].initialResponse # Undefined)

\* what the operation does with the setResponse and setError it is handed while
\* it is being invoked (lines 939-951): nothing, or one call before its first await
NoOptimistic == [present |-> FALSE, state |-> RESOLVED, data |-> Undefined, target |-> NoTarget]
Optimistic(state, data, target) ==
    [present |-> TRUE, state |-> state, data |-> data, target |-> target]

\* the function load(opts) returns, called on instance i from the render that
\* closed over cl, with an operation that behaves as `optimistic` says
loadCalling(w, i, cl, manual, given, optimistic) ==
    LET c == Cons(i)
        args == IF given.present THEN given.args
                ELSE IF Truthy(cl.variables) THEN VariablesArgs(cl.variables)
                ELSE NoArgs
        count == w.counter[i] + 1
        w1 == [w EXCEPT !.counter[i] = count]
        cached == LoadCached(w1, c, cl)
        w2 == IF ~cl.defer /\ Exists(cached) THEN dispatch(w1, i, ActionOf(cached, TRUE)) ELSE w1
        isReloading == IsReloading(w1, c, cl, count)
        op == [inst |-> i, count |-> count, closure |-> cl, manual |-> manual, args |-> args]
        invoked == [w2 EXCEPT !.ops = @ \cup {op}, !.calls[i] = @ + 1]
        w3 == IF optimistic.present
              THEN handleOptimisticData(invoked, i, cl.cacheKey, optimistic.data,
                                        optimistic.target, optimistic.state, count)
              ELSE invoked
        timer(kind) == [kind |-> kind, id |-> count, closure |-> cl,
                        isReloading |-> isReloading, args |-> args]
        w4 == IF cfg[c].delay
              THEN SetTimer(w3, i, timer("delay"))
              ELSE handleLoading(w3, i, cl.cacheKey, isReloading, FALSE, <<i, count>>)
        w5 == IF cfg[c].timeout THEN SetTimer(w4, i, timer("slow")) ELSE w4
    IN  IF IsSuppressed(cl, manual) THEN w
        ELSE IF IsShortCircuited(w1, c, cl)
             THEN [w1 EXCEPT !.suspenders[cl.cacheKey] = "false", !.shorted[cl.cacheKey] = @ + 1]
        ELSE IF IsSkipped(w1, c, cl, manual) THEN w2
        ELSE IF ~args.spreadable THEN w2
        ELSE w5

\* load with an operation that returns its promise without calling setResponse
\* or setError first
load(w, i, cl, manual, given) == loadCalling(w, i, cl, manual, given, NoOptimistic)

\* the then and catch callbacks of load (lines 965-998)
OnFulfilled(w, op, response) ==
    handleData(w, op.inst, op.closure.cacheKey, op.count,
               [state |-> RESOLVED, response |-> response, error |-> Undefined], TRUE)

OnRejected(w, op, error) ==
    LET w1 == handleData(w, op.inst, op.closure.cacheKey, op.count,
                         [state |-> REJECTED, response |-> Undefined, error |-> error], TRUE)
    IN  IF cfg[Cons(op.inst)].rejectRetryInterval
        THEN SetTimer(w1, op.inst, [kind |-> "retry", id |-> op.count, closure |-> op.closure,
                                    isReloading |-> FALSE, args |-> op.args])
        ELSE w1

\* setErrorRetryTimeout(() => load()(args), timeout): args is passed as one argument
RetryGiven(args) == Given([args EXCEPT !.wrap = @ + 1])

\* the promise load returns (lines 965-998) once the operation has settled:
\* what the operation did, and what the then / catch chain made of it
NoReturned == [inst |-> 0, count |-> 0, operation |-> "none", outcome |-> "none",
               value |-> Undefined]

Returned(op, operation, result) ==
    [inst |-> op.inst, count |-> op.count, operation |-> operation,
     outcome |-> result.outcome, value |-> result.value]

\* line 975: return response
ThenReturns(response) == [outcome |-> "fulfilled", value |-> response]

\* a catch callback that throws whenever throwError is set
CatchReturnsIgnoringSuspense(c, error) ==
    IF cfg[c].throwError
    THEN [outcome |-> "rejected", value |-> error]
    ELSE [outcome |-> "fulfilled", value |-> Undefined]

\* lines 995-997: the catch callback throws the error, or returns nothing
CatchReturns(c, error) ==
    IF cfg[c].throwError /\ ~cfg[c].suspense
    THEN [outcome |-> "rejected", value |-> error]
    ELSE [outcome |-> "fulfilled", value |-> Undefined]

\* the numeric values of config.rejectRetryInterval, in ms
RetryIntervals == {200, 1000}

NoRetry == [attempt |-> 0, random |-> 0, interval |-> 0, timeout |-> 0]

\* 1 << count
RECURSIVE ShiftLeft(_)
ShiftLeft(count) == IF count = 0 THEN 1 ELSE 2 * ShiftLeft(count - 1)

\* a retry count without the cap of 8
RetryCountUncapped(counterCurrent) == counterCurrent

\* line 987: Math.min(counter.current || 0, 8)
RetryCount(counterCurrent) == IF counterCurrent < 8 THEN counterCurrent ELSE 8

\* a delay that is truncated after it is scaled by the interval
RetryTimeoutScaledFirst(counterCurrent, k, interval) ==
    ((2 * k + RandomSteps) * ShiftLeft(RetryCount(counterCurrent)) * interval)
        \div (2 * RandomSteps)

\* line 991 for a numeric interval, with Math.random() = k / RandomSteps:
\* ~~((k / RandomSteps + 0.5) * (1 << count)) * rejectRetryInterval; ~~ truncates
\* the product, which is positive, to the integer below it
RetryTimeout(counterCurrent, k, interval) ==
    (((2 * k + RandomSteps) * ShiftLeft(RetryCount(counterCurrent))) \div (2 * RandomSteps))
        * interval

----------------------------------------------------------------------------
(* Render and effects *)

NoClosure == Closure(Undefined, NoVariables, TRUE, TRUE, FALSE)
NoRevalidator == [owner |-> 0, closure |-> NoClosure]

\* useDetectMounted: its effect runs before the effects of useLoads, so every
\* effect of useLoads reads hasRendered.current as true
HasRenderedInEffects == TRUE

\* lines 1124-1130: the render throws the in-flight promise of its key
WouldSuspend(w, c) ==
    LET key == KeyOf(c, w.props[c])
    IN  /\ cfg[c].suspense
        /\ ~DeferOf(c, w.props[c])
        /\ key # Undefined
        /\ Exists(RecordsGet(w, key))
        /\ w.promises[key] # NoPromise

\* lines 1131-1133: the render calls load()() when its key has no record
RenderLoads(w, c) ==
    LET key == KeyOf(c, w.props[c])
    IN  /\ cfg[c].suspense
        /\ ~DeferOf(c, w.props[c])
        /\ key # Undefined
        /\ ~Exists(RecordsGet(w, key))

\* an initial state that does not look at the cache
InitialRecordIgnoringCache(c, defer, cached) ==
    IF cfg[c].initialResponse # Undefined
    THEN [state |-> RESOLVED, response |-> cfg[c].initialResponse, error |-> Undefined,
          isCached |-> FALSE]
    ELSE [IDLE_RECORD EXCEPT !.state = IF defer THEN IDLE ELSE PENDING]

\* lines 736-752
InitialRecord(c, defer, cached) ==
    IF Exists(cached) /\ ~defer
    THEN [state |-> cached.state, response |-> cached.response, error |-> cached.error,
          isCached |-> FALSE]
    ELSE IF cfg[c].initialResponse # Undefined
    THEN [state |-> RESOLVED, response |-> cfg[c].initialResponse, error |-> Undefined,
          isCached |-> FALSE]
    ELSE [IDLE_RECORD EXCEPT !.state = IF defer THEN IDLE ELSE PENDING]

\* the cleanup of the subscribe effect (lines 1083-1087)
Unsubscribe(w, c, cacheKey) ==
    [w EXCEPT !.updaters[cacheKey] = SelectSeq(@, LAMBDA u : u # c)]

\* the body of the subscribe effect (lines 1075-1081)
Subscribe(w, c, cacheKey) ==
    [w EXCEPT !.updaters[cacheKey] = Append(@, c)]

\* What one render of consumer c computes from its props and the previous
\* render (lines 712-744), and which dependencies of its effects changed.
\* `first` is the mount.
Render(w, c, first) ==
    LET p == w.props[c]
        prev == w.rendered[c]
        cacheKey == KeyOf(c, p)
        defer == DeferOf(c, p)
        prevCacheKey == IF first THEN Undefined ELSE prev.cacheKey
        prevVariablesHash == IF first THEN Undefined ELSE Stringify(prev.variables)
        isSameContext == prevCacheKey = Undefined \/ prevCacheKey = cacheKey
        isSameVariables == Stringify(p.variables) = prevVariablesHash
        cl == Closure(cacheKey, p.variables, isSameVariables, isSameContext, defer)
        keyChanged == first \/ cacheKey # prev.cacheKey
    IN  [ cl |-> cl,
          prev |-> prev,
          first |-> first,
          keyChanged |-> keyChanged,
          deferChanged |-> first \/ defer # prev.defer,
          loadChanged |-> first \/ Truthy(p.variables) \/ cl # prev,
          memo |-> IF keyChanged
                   THEN IF cacheKey # Undefined /\ cfg[c].loadPolicy # LOAD_ONLY
                        THEN RecordsGet(w, cacheKey) ELSE NoRecord
                   ELSE w.cachedRecord[c] ]

\* the body of the hook on instance i: the memo, the initial state of the
\* reducer on the mount, and the load of the suspense path (lines 1131-1133)
RenderBody(w, c, i, r) ==
    LET r0 == IF i # c THEN w
              ELSE IF r.first
              THEN [w EXCEPT !.cachedRecord[c] = r.memo, !.phase[c] = "mounted",
                             !.record[c] = InitialRecord(c, r.cl.defer, r.memo)]
              ELSE [w EXCEPT !.cachedRecord[c] = r.memo]
    IN  IF RenderLoads(r0, c) THEN load(r0, i, r.cl, FALSE, NotGiven) ELSE r0

\* React commits the render: the callbacks of this render replace the old ones
CommitRender(w, c, r) == [w EXCEPT !.dirty[c] = FALSE, !.rendered[c] = r.cl]

\* a subscribe effect without its cleanup
SubscribeCleanupNever(w, c, r) == w

\* the cleanups of the effects whose dependencies changed
SubscribeCleanup(w, c, r) ==
    IF ~r.first /\ (r.keyChanged \/ r.deferChanged) /\ ~r.prev.defer
    THEN Unsubscribe(w, c, r.prev.cacheKey) ELSE w

RevalidatorCleanup(w, c, r) ==
    IF ~r.first /\ cfg[c].revalidateOnWindowFocus /\ ~r.prev.defer
       /\ (r.keyChanged \/ r.deferChanged \/ r.loadChanged)
    THEN [w EXCEPT !.revalidators[r.prev.cacheKey] = NoRevalidator] ELSE w

\* lines 1044-1051
ResetEffect(w, c, r) ==
    IF r.keyChanged /\ ~Exists(r.memo) /\ r.cl.cacheKey # Undefined
       /\ cfg[c].initialResponse = Undefined
    THEN dispatch(w, c, [type |-> IDLE, isCached |-> FALSE,
                         response |-> Undefined, error |-> Undefined])
    ELSE w

\* lines 1053-1060
CachedEffect(w, c, r) ==
    IF (r.keyChanged \/ r.deferChanged) /\ Exists(r.memo) /\ ~r.cl.defer
       /\ cfg[c].loadPolicy # LOAD_ONLY
    THEN dispatch(w, c, ActionOf(r.memo, TRUE)) ELSE w

\* a load effect that never loads
LoadEffectNever(w, c, r) == w

\* lines 1062-1069
LoadEffect(w, c, r) ==
    IF (r.keyChanged \/ r.deferChanged \/ r.loadChanged)
       /\ ~( \/ r.cl.defer
             \/ (cfg[c].suspense /\ ~HasRenderedInEffects /\ ~Exists(r.memo))
             \/ cfg[c].loadPolicy = CACHE_ONLY )
    THEN load(w, c, r.cl, FALSE, NotGiven) ELSE w

\* lines 1071-1090
SubscribeEffect(w, c, r) ==
    IF (r.keyChanged \/ r.deferChanged) /\ ~r.cl.defer
    THEN Subscribe(w, c, r.cl.cacheKey) ELSE w

\* lines 1092-1104
RevalidatorEffect(w, c, r) ==
    IF cfg[c].revalidateOnWindowFocus /\ ~r.cl.defer
       /\ (r.keyChanged \/ r.deferChanged \/ r.loadChanged)
    THEN [w EXCEPT !.revalidators[r.cl.cacheKey] = [owner |-> c, closure |-> r.cl]]
    ELSE w

\* the effects React runs after a render: the cleanups, then the bodies in the
\* order of their declaration
Effects(w, c, r) ==
    RevalidatorEffect(
      SubscribeEffect(
        LoadEffect(
          CachedEffect(
            ResetEffect(
              RevalidatorCleanup(
                SubscribeCleanup(CommitRender(w, c, r), c, r), c, r), c, r), c, r), c, r), c, r), c, r)

\* after the body: an instance React throws away runs no effect; a render that
\* throws the in-flight promise (lines 1124-1130) commits nothing and is due
\* again; any other render is committed and its effects run
AfterRender(before, w, c, i, r) ==
    IF i # c THEN w
    ELSE IF WouldSuspend(w, c)
    THEN [w EXCEPT !.dirty[c] = TRUE, !.cachedRecord[c] = before.cachedRecord[c]]
    ELSE Effects(w, c, r)

\* One render of consumer c with its current props.  i is the hook instance
\* that renders: c itself, or on a mount that suspends the instance React
\* throws away.
RenderWith(w, c, i, first) ==
    AfterRender(w, RenderBody(w, c, i, Render(w, c, first)), c, i, Render(w, c, first))

----------------------------------------------------------------------------
(* Actions *)

\* the consumers React has to render again: a dispatch happened, and the render
\* does not throw the in-flight promise
Renderable(w) == {c \in Consumers : w.phase[c] = "mounted" /\ w.dirty[c] /\ ~WouldSuspend(w, c)}

\* React re-renders the consumers whose state changed before the task ends
RECURSIVE Rerender(_)
Rerender(w) ==
    IF Renderable(w) = {} THEN w
    ELSE LET c == CHOOSE x \in Renderable(w) : \A y \in Renderable(w) : x <= y
         IN  Rerender(RenderWith(w, c, c, FALSE))

\* the cap on the counter refs
RECURSIVE Sum(_, _)
Sum(f, S) == IF S = {} THEN 0 ELSE LET x == CHOOSE y \in S : TRUE IN f[x] + Sum(f, S \ {x})

Bounded(w) == Sum(w.counter, Insts) <= MaxLoads

\* one task: the handler's result, then React's re-renders
Finish(done) == Bounded(done) /\ Becomes(done)

Step(w) == Finish(Rerender(w)) /\ UNCHANGED <<retry, returned>>

\* the component is mounted: its first render and its effects.  When the first
\* render starts the load and then finds the in-flight promise, React throws
\* the rendering instance away and the consumer stays unmounted.
Mount(c) ==
    /\ phase[c] = "init"
    /\ ~WouldSuspend(World, c)
    /\ LET thrownAway == RenderWith(World, c, Ghost(c), TRUE)
       IN  IF WouldSuspend(thrownAway, c)
           THEN counter[Ghost(c)] = 0 /\ Step(thrownAway)
           ELSE Step(RenderWith(World, c, c, TRUE))

\* the parent renders the consumer with another context or other variables
ChangeProps(c, p) ==
    /\ phase[c] = "mounted"
    /\ p # props[c]
    /\ LET w == [World EXCEPT !.props[c] = p]
       IN  IF WouldSuspend(w, c)
           THEN Step([w EXCEPT !.dirty[c] = TRUE])
           ELSE Step(RenderWith(w, c, c, FALSE))

\* the component is unmounted: the cleanups of its effects
Unmount(c) ==
    /\ phase[c] = "mounted"
    /\ LET cl == rendered[c]
           w1 == IF ~cl.defer THEN Unsubscribe(World, c, cl.cacheKey) ELSE World
           w2 == IF cfg[c].revalidateOnWindowFocus /\ ~cl.defer
                 THEN [w1 EXCEPT !.revalidators[cl.cacheKey] = NoRevalidator] ELSE w1
           w3 == ClearTimer(ClearTimer(ClearTimer(w2, c, "delay"), c, "slow"), c, "retry")
       IN  Step([w3 EXCEPT !.phase[c] = "unmounted", !.hasMounted[c] = FALSE,
                           !.dirty[c] = FALSE])

\* the user calls the load the hook returned, with or without an argument
ManualLoad(c, given) ==
    /\ phase[c] = "mounted"
    /\ Step(load(World, c, rendered[c], TRUE, given))

\* the user calls reset
Reset(c) ==
    /\ phase[c] = "mounted"
    /\ Step(dispatch(World, c, [type |-> IDLE, isCached |-> FALSE,
                                response |-> Undefined, error |-> Undefined]))

\* the callback of useInterval (lines 1106-1109)
PollTick(c, visible) ==
    /\ phase[c] = "mounted"
    /\ cfg[c].pollingInterval
    /\ visible \/ cfg[c].pollWhenHidden
    /\ Step(load(World, c, rendered[c], FALSE, NotGiven))

\* the window's focus / visibilitychange listener (lines 1159-1162)
RECURSIVE Revalidate(_, _)
Revalidate(w, keys) ==
    IF keys = {} THEN w
    ELSE LET k == CHOOSE x \in keys : TRUE
             r == w.revalidators[k]
         IN  Revalidate(IF r.owner # 0 THEN load(w, r.owner, r.closure, FALSE, NotGiven) ELSE w,
                        keys \ {k})

Focus(visible, online) ==
    /\ visible /\ online
    /\ \E k \in Keys : revalidators[k].owner # 0
    /\ Step(Revalidate(World, Keys))

\* a timer set by setDelayTimeout, setTimeoutTimeout or setErrorRetryTimeout fires
DelayFire(i, t) ==
    /\ t \in timers[i] /\ t.kind = "delay"
    /\ Step(handleLoading([World EXCEPT !.timers[i] = @ \ {t}], i, t.closure.cacheKey,
                          t.isReloading, FALSE, <<i, t.id>>))

SlowFire(i, t) ==
    /\ t \in timers[i] /\ t.kind = "slow"
    /\ Step(handleLoading([World EXCEPT !.timers[i] = @ \ {t}], i, t.closure.cacheKey,
                          t.isReloading, TRUE, <<i, t.id>>))

RetryFire(i, t) ==
    /\ t \in timers[i] /\ t.kind = "retry"
    /\ Step(load([World EXCEPT !.timers[i] = @ \ {t}], i, t.closure, FALSE, RetryGiven(t.args)))

\* the operation's promise settles
Fulfil(op, response) ==
    /\ op \in ops
    /\ Step(OnFulfilled([World EXCEPT !.ops = @ \ {op}], op, response))

Reject(op, error) ==
    /\ op \in ops
    /\ Step(OnRejected([World EXCEPT !.ops = @ \ {op}], op, error))

\* the catch callback of load schedules the retry (lines 986-993): counter.current
\* is at least 1, load has counted the failed invocation (line 904)
ScheduleRetry(counterCurrent, k, interval) ==
    /\ retry' = [attempt |-> counterCurrent, random |-> k, interval |-> interval,
                 timeout |-> RetryTimeout(counterCurrent, k, interval)]
    /\ UNCHANGED <<cfg, props, phase, hasMounted, record, counter, rendered, cachedRecord,
                   dirty, timers, timerRef, ops, records, promises, suspenders, updaters,
                   revalidators, calls, shorted, returned>>

\* an outstanding operation in optimistic form calls setResponse or setError
\* (lines 941-950)
SetResponse(op, data, target) ==
    /\ op \in ops
    /\ Step(handleOptimisticData(World, op.inst, op.closure.cacheKey, data, target,
                                  RESOLVED, op.count))

SetError(op, data, target) ==
    /\ op \in ops
    /\ Step(handleOptimisticData(World, op.inst, op.closure.cacheKey, data, target,
                                  REJECTED, op.count))

\* the user calls load with an operation in optimistic form that calls
\* setResponse(data) as it is invoked (README, Optimistic responses)
OptimisticLoad(c, data) ==
    /\ phase[c] = "mounted"
    /\ Step(loadCalling(World, c, rendered[c], TRUE, NotGiven,
                        Optimistic(RESOLVED, data, NoTarget)))

\* the operation's promise settles while the caller of load holds the promise
\* load returned
FulfilObserved(op, response) ==
    /\ op \in ops
    /\ Finish(Rerender(OnFulfilled([World EXCEPT !.ops = @ \ {op}], op, response)))
    /\ returned' = Returned(op, "fulfilled", ThenReturns(response))
    /\ UNCHANGED retry

RejectObserved(op, error) ==
    /\ op \in ops
    /\ Finish(Rerender(OnRejected([World EXCEPT !.ops = @ \ {op}], op, error)))
    /\ returned' = Returned(op, "rejected", CatchReturns(Cons(op.inst), error))
    /\ UNCHANGED retry

\* time passes
Tick ==
    /\ \E k \in Keys : Exists(records[k]) /\ records[k].elapsed < MaxElapsed
    /\ Step([World EXCEPT !.records =
                [k \in Keys |-> IF Exists(@[k]) /\ @[k].elapsed < MaxElapsed
                                THEN [@[k] EXCEPT !.elapsed = @ + 1] ELSE @[k]]])

----------------------------------------------------------------------------
(* Specifications *)

\* configs and propsSet: the configurations and the props the consumers may have,
\* as sets of functions on Consumers
InitWith(configs, propsSet) ==
    /\ cfg \in configs
    /\ props \in propsSet
    /\ phase = [c \in Consumers |-> "init"]
    /\ hasMounted = [i \in Insts |-> TRUE]
    /\ record = [c \in Consumers |-> IDLE_RECORD]
    /\ counter = [i \in Insts |-> 0]
    /\ rendered = [c \in Consumers |-> NoClosure]
    /\ cachedRecord = [c \in Consumers |-> NoRecord]
    /\ dirty = [c \in Consumers |-> FALSE]
    /\ timers = [i \in Insts |-> {}]
    /\ timerRef = [i \in Insts |-> NoTimerIds]
    /\ ops = {}
    /\ records = [k \in Keys |-> NoRecord]
    /\ promises = [k \in Keys |-> NoPromise]
    /\ suspenders = [k \in Keys |-> Undefined]
    /\ updaters = [k \in Keys |-> <<>>]
    /\ revalidators = [k \in Keys |-> NoRevalidator]
    /\ calls = [i \in Insts |-> 0]
    /\ shorted = [k \in Keys |-> 0]
    /\ retry = NoRetry
    /\ returned = NoReturned

\* the configurations the specifications use
Deferred == [DefaultConfig EXCEPT !.defer = TRUE]
Polling == [DefaultConfig EXCEPT !.pollingInterval = TRUE]
Automatic == [DefaultConfig EXCEPT !.pollingInterval = TRUE, !.rejectRetryInterval = TRUE,
                                   !.revalidateOnWindowFocus = TRUE]
PollingLoadOnly == [DefaultConfig EXCEPT !.pollingInterval = TRUE, !.loadPolicy = LOAD_ONLY]
PollingDeferred == [DefaultConfig EXCEPT !.pollingInterval = TRUE, !.defer = TRUE]
Slow == [DefaultConfig EXCEPT !.timeout = TRUE]

\* the argument a manual load may be called with
Explicit == Given([vals |-> <<7>>, wrap |-> 0, spreadable |-> TRUE])

\* mounting, unmounting and the settling of operations
Lifecycle ==
    \/ \E c \in Consumers : Mount(c)
    \/ \E c \in Consumers : Unmount(c)
    \/ \E op \in ops, r \in Responses : Fulfil(op, r)
    \/ \E op \in ops, e \in Errors : Reject(op, e)

\* Spec: two consumers of the key "a", the second one deferred or not, and
\* manual loads; no time passes
Init == InitWith({<<DefaultConfig, DefaultConfig>>, <<DefaultConfig, Deferred>>},
                 {<<PropsA, PropsA>>})

Next ==
    \/ Lifecycle
    \/ \E c \in Consumers : ManualLoad(c, NotGiven)

Spec == Init /\ [][Next]_vars

\* SpecKeys: two consumers with variables whose parents change their context
InitKeys == InitWith({<<DefaultConfig, DefaultConfig>>, <<DefaultConfig, Deferred>>},
                     {<<PropsA1, PropsB1>>})

NextKeys ==
    \/ Lifecycle
    \/ \E c \in Consumers, p \in {PropsA1, PropsB1} : ChangeProps(c, p)

SpecKeys == InitKeys /\ [][NextKeys]_vars

\* SpecAuto: the automatic triggers of a mounted consumer (polling, retry,
\* the focus of the window) next to manual loads, while time passes
InitAuto == InitWith({<<Automatic, PollingLoadOnly>>}, {<<PropsA, PropsA>>})

NextAuto ==
    \/ \E c \in Consumers : Mount(c)
    \/ \E op \in ops : Fulfil(op, "r1")
    \/ \E op \in ops, e \in Errors : Reject(op, e)
    \/ \E c \in Consumers : ManualLoad(c, NotGiven)
    \/ \E c \in Consumers : PollTick(c, TRUE)
    \/ \E i \in Insts : \E t \in timers[i] : RetryFire(i, t)
    \/ Focus(TRUE, TRUE)
    \/ Tick

SpecAuto == InitAuto /\ [][NextAuto]_vars

\* SpecDefer: a deferred consumer that polls, next to one that is not deferred
InitDefer == InitWith({<<DefaultConfig, PollingDeferred>>}, {<<PropsA, PropsA>>, <<PropsA, PropsThrows>>})

NextDefer ==
    \/ Lifecycle
    \/ \E c \in Consumers : ManualLoad(c, NotGiven)
    \/ \E c \in Consumers, visible \in BOOLEAN : PollTick(c, visible)

SpecDefer == InitDefer /\ [][NextDefer]_vars

\* SpecSlow: consumers with a slow threshold
InitSlow == InitWith({<<Slow, Slow>>}, {<<PropsA, PropsA>>})

NextSlow ==
    \/ Lifecycle
    \/ \E c \in Consumers : ManualLoad(c, NotGiven)
    \/ \E i \in Insts : \E t \in timers[i] : SlowFire(i, t)

SpecSlow == InitSlow /\ [][NextSlow]_vars

\* SpecFirst: two polling consumers with the cache-first policy, manual loads,
\* while time passes
CacheFirst == [DefaultConfig EXCEPT !.loadPolicy = CACHE_FIRST, !.pollingInterval = TRUE]

InitFirst == InitWith({<<CacheFirst, CacheFirst>>}, {<<PropsA, PropsA>>})

NextFirst ==
    \/ \E c \in Consumers : Mount(c)
    \/ \E op \in ops : Fulfil(op, "r1")
    \/ \E op \in ops, e \in Errors : Reject(op, e)
    \/ \E c \in Consumers : ManualLoad(c, NotGiven)
    \/ \E c \in Consumers : PollTick(c, TRUE)
    \/ Tick

SpecFirst == InitFirst /\ [][NextFirst]_vars

\* SpecStale: consumers with revalidateTime = 0, with the default and with the
\* cache-first policy, that mount on a key other loads have written; the
\* cache never expires a record
AlwaysStale == [DefaultConfig EXCEPT !.revalidateTime = 0]
AlwaysStaleCacheFirst == [DefaultConfig EXCEPT !.revalidateTime = 0, !.loadPolicy = CACHE_FIRST]

InitStale ==
    InitWith({<<AlwaysStale, AlwaysStale>>, <<AlwaysStale, AlwaysStaleCacheFirst>>},
             {<<PropsA, PropsA>>})

NextStale ==
    \/ \E c \in Consumers : Mount(c)
    \/ \E op \in ops : Fulfil(op, "r1")
    \/ \E op \in ops, e \in Errors : Reject(op, e)
    \/ \E c \in Consumers : ManualLoad(c, NotGiven)
    \/ Tick

SpecStale == InitStale /\ [][NextStale]_vars

\* SpecNoKey: a polling consumer without a context, with or without suspense,
\* next to a consumer without a context or with the context "a"; no time passes
PollingSuspense == [DefaultConfig EXCEPT !.pollingInterval = TRUE, !.suspense = TRUE]

InitNoKey ==
    InitWith({<<Polling, Polling>>, <<PollingSuspense, Polling>>},
             {<<PropsNone, PropsNone>>, <<PropsNone, PropsA>>})

NextNoKey ==
    \/ Lifecycle
    \/ \E c \in Consumers : ManualLoad(c, NotGiven)
    \/ \E c \in Consumers : PollTick(c, TRUE)

SpecNoKey == InitNoKey /\ [][NextNoKey]_vars

\* SpecFrame: consumers of the keys "a" and "b" whose parents change their
\* context, with operations in optimistic form that commit to their own key or
\* name the other one
Targets == {NoTarget, Target(PropsA), Target(PropsB)}

InitFrame == InitWith({<<DefaultConfig, DefaultConfig>>}, {<<PropsA, PropsB>>})

NextFrame ==
    \/ \E c \in Consumers : Mount(c)
    \/ \E op \in ops : Fulfil(op, "r1")
    \/ \E op \in ops, e \in Errors : Reject(op, e)
    \/ \E c \in Consumers, p \in {PropsA, PropsB} : ChangeProps(c, p)
    \/ \E op \in ops, d \in Provisional, t \in Targets : SetResponse(op, d, t)
    \/ \E op \in ops, d \in Provisional : SetError(op, d, NoTarget)

SpecFrame == InitFrame /\ [][NextFrame]_vars

\* SpecHash: two consumers of the context "a" under the default strategy, each
\* with variables of its own
HashProps == {PropsA, PropsA1, PropsA2, PropsA12, PropsANull, PropsAUndefined}

InitHash == InitWith({<<DefaultConfig, DefaultConfig>>}, [Consumers -> HashProps])

SpecHash == InitHash /\ [][Lifecycle]_vars

\* SpecShared: two consumers of the context "a" with the variables [1] and [2]
\* under the context-only strategy
ResourceOnly == [DefaultConfig EXCEPT !.cacheStrategy = CONTEXT_ONLY]

InitShared == InitWith({<<ResourceOnly, ResourceOnly>>}, {<<PropsA1, PropsA2>>})

NextShared ==
    \/ Lifecycle
    \/ \E c \in Consumers : ManualLoad(c, NotGiven)

SpecShared == InitShared /\ [][NextShared]_vars

\* SpecSuspense: consumers with suspense, the second one with or without an
\* initialResponse, that mount on the same key
Suspending == [DefaultConfig EXCEPT !.suspense = TRUE]
SuspendingSeeded == [DefaultConfig EXCEPT !.suspense = TRUE, !.initialResponse = "r2"]

InitSuspense ==
    InitWith({<<Suspending, Suspending>>, <<Suspending, SuspendingSeeded>>},
             {<<PropsA, PropsA>>})

NextSuspense ==
    \/ \E c \in Consumers : Mount(c)
    \/ \E c \in Consumers : Unmount(c)
    \/ \E op \in ops : Fulfil(op, "r1")
    \/ \E op \in ops, e \in Errors : Reject(op, e)
    \/ \E c \in Consumers : ManualLoad(c, NotGiven)

SpecSuspense == InitSuspense /\ [][NextSuspense]_vars

\* SpecThrow: a consumer with or without throwError and suspense whose caller
\* awaits the promises its loads return, next to a default consumer
Throwing(throwError, suspense) ==
    [DefaultConfig EXCEPT !.throwError = throwError, !.suspense = suspense]

InitThrow ==
    InitWith({<<Throwing(t, s), DefaultConfig>> : t \in BOOLEAN, s \in BOOLEAN},
             {<<PropsA, PropsA>>})

NextThrow ==
    \/ \E c \in Consumers : Mount(c)
    \/ \E c \in Consumers : Unmount(c)
    \/ \E c \in Consumers : ManualLoad(c, NotGiven)
    \/ \E op \in ops : FulfilObserved(op, "r1")
    \/ \E op \in ops, e \in Errors : RejectObserved(op, e)

SpecThrow == InitThrow /\ [][NextThrow]_vars

\* SpecRetry: the delay of the retry, for every value of the counter ref, of
\* Math.random() and of the interval
InitRetry == InitWith({<<Automatic, Automatic>>}, {<<PropsA, PropsA>>})

NextRetry ==
    \E n \in 1..MaxAttempts, k \in 0..(RandomSteps - 1), interval \in RetryIntervals :
        ScheduleRetry(n, k, interval)

SpecRetry == InitRetry /\ [][NextRetry]_vars

\* SpecPoll: two polling consumers, one without variables and one with the
\* variables [1], the first with or without pollWhenHidden; the document is
\* visible or hidden at a tick; manual loads; time passes
PollingHidden == [DefaultConfig EXCEPT !.pollingInterval = TRUE, !.pollWhenHidden = TRUE]

InitPoll == InitWith({<<Polling, Polling>>, <<PollingHidden, Polling>>}, {<<PropsA, PropsA1>>})

NextPoll ==
    \/ \E c \in Consumers : Mount(c)
    \/ \E op \in ops : Fulfil(op, "r1")
    \/ \E op \in ops, e \in Errors : Reject(op, e)
    \/ \E c \in Consumers, visible \in BOOLEAN : PollTick(c, visible)
    \/ \E c \in Consumers : ManualLoad(c, NotGiven)
    \/ Tick

SpecPoll == InitPoll /\ [][NextPoll]_vars

\* SpecOptimistic: two consumers of the key "a", the first one deferred or not,
\* whose manual loads run a plain operation or one in optimistic form; an
\* operation calls setResponse for its own key as it is invoked, or later
InitOptimistic ==
    InitWith({<<DefaultConfig, DefaultConfig>>, <<Deferred, DefaultConfig>>}, {<<PropsA, PropsA>>})

NextOptimistic ==
    \/ \E c \in Consumers : Mount(c)
    \/ \E op \in ops : Fulfil(op, "r1")
    \/ \E op \in ops, e \in Errors : Reject(op, e)
    \/ \E c \in Consumers : ManualLoad(c, NotGiven)
    \/ \E c \in Consumers, d \in Provisional : OptimisticLoad(c, d)
    \/ \E op \in ops, d \in Provisional : SetResponse(op, d, NoTarget)

SpecOptimistic == InitOptimistic /\ [][NextOptimistic]_vars

\* SpecSeed: a consumer with or without an initialResponse, deferred or not,
\* that mounts on the key "a" before or after the loads of a default consumer
Seeded == [DefaultConfig EXCEPT !.initialResponse = "r2"]
SeededDeferred == [DefaultConfig EXCEPT !.initialResponse = "r2", !.defer = TRUE]

InitSeed ==
    InitWith({<<DefaultConfig, x>> : x \in {DefaultConfig, Deferred, Seeded, SeededDeferred}},
             {<<PropsA, PropsA>>})

SpecSeed == InitSeed /\ [][Lifecycle]_vars

\* a response that is falsy in JavaScript (0, '', false, null)
FalsyResponse == "falsy"

\* Boolean(record.response)
HasResponse(rec) == rec.response \notin {Undefined, FalsyResponse}

\* a derivation of the flags from the state alone
statesByStateOnly(rec) ==
    [ isIdle |-> rec.state = IDLE,
      isPending |-> rec.state \in {PENDING, PENDING_SLOW} /\ ~HasResponse(rec),
      isPendingSlow |-> rec.state = PENDING_SLOW,
      isResolved |-> rec.state = RESOLVED,
      isRejected |-> rec.state = REJECTED,
      isReloading |-> rec.state \in {RELOADING, RELOADING_SLOW},
      isReloadingSlow |-> rec.state = RELOADING_SLOW ]

\* lines 1111-1122: the flags the hook returns next to the record
states(rec) ==
    [ isIdle |-> rec.state = IDLE /\ ~HasResponse(rec),
      isPending |-> rec.state \in {PENDING, PENDING_SLOW} /\ ~HasResponse(rec),
      isPendingSlow |-> rec.state = PENDING_SLOW /\ ~HasResponse(rec),
      isResolved |-> rec.state = RESOLVED \/ HasResponse(rec),
      isRejected |-> rec.state = REJECTED,
      isReloading |-> rec.state \in {RELOADING, RELOADING_SLOW},
      isReloadingSlow |-> rec.state = RELOADING_SLOW ]

\* SpecFlags: a consumer with a slow threshold next to a default or a seeded
\* one, on one key; plain and optimistic manual loads, resets, responses that
\* are truthy or falsy, rejections
InitFlags == InitWith({<<Slow, DefaultConfig>>, <<Slow, Seeded>>}, {<<PropsA, PropsA>>})

NextFlags ==
    \/ \E c \in Consumers : Mount(c)
    \/ \E op \in ops, r \in {"r1", FalsyResponse} : Fulfil(op, r)
    \/ \E op \in ops, e \in Errors : Reject(op, e)
    \/ \E c \in Consumers : ManualLoad(c, NotGiven)
    \/ \E c \in Consumers, d \in Provisional : OptimisticLoad(c, d)
    \/ \E c \in Consumers : Reset(c)
    \/ \E i \in Insts : \E t \in timers[i] : SlowFire(i, t)

SpecFlags == InitFlags /\ [][NextFlags]_vars

\* SpecSlowKeys: consumers with a slow threshold on the keys "a" and "b" whose
\* parents change their context; no time passes, so that a load on a key that
\* has just been settled is a duplicate
InitSlowKeys == InitWith({<<Slow, Slow>>}, {<<PropsA, PropsB>>})

NextSlowKeys ==
    \/ \E c \in Consumers : Mount(c)
    \/ \E op \in ops : Fulfil(op, "r1")
    \/ \E op \in ops, e \in Errors : Reject(op, e)
    \/ \E c \in Consumers, p \in {PropsA, PropsB} : ChangeProps(c, p)
    \/ \E i \in Insts : \E t \in timers[i] : SlowFire(i, t)

SpecSlowKeys == InitSlowKeys /\ [][NextSlowKeys]_vars

\* SpecFocus: consumers of one key that revalidate on the focus of the window,
\* two of them or one next to a default consumer, while time passes
Revalidating == [DefaultConfig EXCEPT !.revalidateOnWindowFocus = TRUE]

InitFocus ==
    InitWith({<<Revalidating, Revalidating>>, <<Revalidating, DefaultConfig>>},
             {<<PropsA, PropsA>>})

NextFocus ==
    \/ \E c \in Consumers : Mount(c)
    \/ \E c \in Consumers : Unmount(c)
    \/ \E op \in ops : Fulfil(op, "r1")
    \/ \E op \in ops, e \in Errors : Reject(op, e)
    \/ \E visible, online \in BOOLEAN : Focus(visible, online)
    \/ Tick

SpecFocus == InitFocus /\ [][NextFocus]_vars

\* SpecDelay: a consumer with a delay before it shows loading, with or without
\* a slow threshold, next to a default consumer; the timers fire at any time
Delayed == [DefaultConfig EXCEPT !.delay = TRUE]
DelayedSlow == [DefaultConfig EXCEPT !.delay = TRUE, !.timeout = TRUE]
DelayedPolling == [DefaultConfig EXCEPT !.delay = TRUE, !.pollingInterval = TRUE]

InitDelay ==
    InitWith({<<Delayed, DefaultConfig>>, <<DelayedSlow, DefaultConfig>>,
              <<DelayedPolling, DefaultConfig>>}, {<<PropsA, PropsA>>})

NextDelay ==
    \/ \E c \in Consumers : Mount(c)
    \/ \E op \in ops : Fulfil(op, "r1")
    \/ \E op \in ops, e \in Errors : Reject(op, e)
    \/ \E c \in Consumers : ManualLoad(c, NotGiven)
    \/ \E i \in Insts : \E t \in timers[i] : DelayFire(i, t)
    \/ \E i \in Insts : \E t \in timers[i] : SlowFire(i, t)
    \/ \E c \in Consumers : PollTick(c, TRUE)

SpecDelay == InitDelay /\ [][NextDelay]_vars

----------------------------------------------------------------------------
(* Properties *)

\* the operation op settles in this step
Settles(op) == (\E r \in Responses : Fulfil(op, r)) \/ (\E e \in Errors : Reject(op, e))

\* consumer c is mounted
Mounted(c) == phase[c] = "mounted"

(* C1: a completion whose captured sequence number differs from the current *)
(* counter of its consumer leaves that consumer's local record (state,      *)
(* response, error) as it is.                                               *)
C1_StaleCompletionIgnored ==
    [][\A op \in ops :
          (Settles(op) /\ op.inst \in Consumers /\ op.count # counter[op.inst])
              => record'[op.inst] = record[op.inst]]_vars

\* C1's case: the first of two invocations of a mounted consumer has settled
\* while the second was outstanding, and the consumer shows neither a response
\* nor an error
C1_StaleCompletionDropped ==
    \E c \in Consumers :
        /\ Mounted(c) /\ counter[c] = 2 /\ calls[c] = 2
        /\ \E op \in ops : op.inst = c /\ op.count = 2
        /\ ~\E op \in ops : op.inst = c /\ op.count = 1
        /\ record[c].response = Undefined /\ record[c].error = Undefined

(* C2: of the automatic loads issued for one cache key less than           *)
(* dedupingInterval apart, one invokes the operation: no two operations     *)
(* that automatic loads started for the same key are outstanding together.  *)
(* (No time passes in Spec: all its loads are issued within the interval.)  *)
C2_AutomaticLoadsInvokeOnce ==
    \A o1, o2 \in ops :
        ( /\ ~o1.manual /\ ~o2.manual
          /\ o1.closure.cacheKey # Undefined
          /\ o1.closure.cacheKey = o2.closure.cacheKey ) => o1 = o2

\* the situation of C3: consumer c is not deferred, and the record of its key
\* is RESOLVED or REJECTED and was written less than dedupingInterval ago
FreshlySettled(c) ==
    LET key == KeyOf(c, props[c])
    IN  /\ ~DeferOf(c, props[c])
        /\ key # Undefined
        /\ records[key].state \in {RESOLVED, REJECTED}
        /\ records[key].elapsed < DedupingInterval

\* an automatic trigger of consumer c: its mount, a polling tick, a retry, the
\* focus of the window when c owns the revalidator of its key
AutomaticLoad(c) ==
    \/ Mount(c)
    \/ PollTick(c, TRUE)
    \/ \E t \in timers[c] : RetryFire(c, t)
    \/ (Focus(TRUE, TRUE) /\ \A k \in Keys : revalidators[k].owner \in {0, c})

\* C3 as it is stated: in that situation an automatic load of any consumer
\* invokes nothing and leaves the cache as it is, and a manual load invokes
C3_DuplicateSkippedUnderEveryPolicy ==
    [][\A c \in Consumers :
          /\ (FreshlySettled(c) /\ AutomaticLoad(c))
                => (calls' = calls /\ records' = records)
          /\ (FreshlySettled(c) /\ ManualLoad(c, NotGiven))
                => calls'[c] = calls[c] + 1]_vars

(* C3: an automatic load (mount effect, polling tick, retry, focus) of a    *)
(* non-deferred consumer whose load policy is not load-only, and whose key  *)
(* has a RESOLVED or REJECTED record written less than dedupingInterval     *)
(* ago, invokes no operation and leaves the cache records unchanged; a      *)
(* manual load of a consumer without suspense in that situation invokes     *)
(* the operation.                                                           *)
C3_DuplicateSkipped ==
    [][\A c \in Consumers :
          /\ (FreshlySettled(c) /\ cfg[c].loadPolicy # LOAD_ONLY /\ AutomaticLoad(c))
                => (calls' = calls /\ records' = records)
          /\ (FreshlySettled(c) /\ ~cfg[c].suspense /\ ManualLoad(c, NotGiven))
                => calls'[c] = calls[c] + 1]_vars

\* C3's case: a mounted consumer whose policy reads the cache has started a
\* load that invoked nothing, and the record of its key is still fresh
C3_LoadWasSkipped ==
    \E c \in Consumers :
        /\ Mounted(c) /\ cfg[c].loadPolicy # LOAD_ONLY
        /\ counter[c] > calls[c]
        /\ FreshlySettled(c)

\* op is a load of a mounted consumer bound to a key, and op is that
\* consumer's latest load
CurrentFor(op) ==
    /\ op.inst \in Consumers
    /\ Mounted(op.inst)
    /\ op.count = counter[op.inst]
    /\ op.closure.cacheKey # Undefined
    /\ rendered[op.inst].cacheKey = op.closure.cacheKey

\* the other mounted consumers bound to the key of op
OthersBoundTo(op) ==
    {b \in Consumers \ {op.inst} : Mounted(b) /\ rendered[b].cacheKey = op.closure.cacheKey}

\* C4 as it is stated: every other mounted consumer of the key, deferred or not
C4_BroadcastReachesEveryConsumer ==
    [][\A op \in ops, r \in Responses :
          (CurrentFor(op) /\ Fulfil(op, r)) =>
              \A b \in OthersBoundTo(op) :
                  /\ record'[b].state = RESOLVED
                  /\ record'[b].response = r
                  /\ calls'[b] = calls[b]]_vars

(* C4: when a load of a mounted consumer A bound to key K fulfils with r   *)
(* and is current for A, the local record of every other mounted consumer   *)
(* bound to K that is not deferred becomes RESOLVED with response r, and    *)
(* that consumer's operation is not invoked.                                *)
C4_BroadcastReachesSubscribers ==
    [][\A op \in ops, r \in Responses :
          (CurrentFor(op) /\ Fulfil(op, r)) =>
              \A b \in OthersBoundTo(op) :
                  ~rendered[b].defer =>
                      /\ record'[b].state = RESOLVED
                      /\ record'[b].response = r
                      /\ calls'[b] = calls[b]]_vars

\* C4's case: consumer b shows the response r1 while its own and only load is
\* still outstanding: the record came from the load of the other consumer
C4_BroadcastReceived ==
    \E a, b \in Consumers :
        /\ a # b /\ Mounted(a) /\ Mounted(b) /\ ~rendered[b].defer
        /\ record[a].state = RESOLVED /\ record[a].response = "r1"
        /\ record[b].state = RESOLVED /\ record[b].response = "r1"
        /\ counter[b] = 1 /\ calls[b] = 1
        /\ \E op \in ops : op.inst = b /\ op.count = 1

(* C5: whenever no operation is outstanding for key K, every mounted,      *)
(* non-deferred consumer bound to K shows the response and the error of     *)
(* K's record in the cache.                                                 *)
C5_ConsumersShowTheCacheRecord ==
    \A c \in Consumers :
        LET k == rendered[c].cacheKey
        IN  ( /\ Mounted(c) /\ ~rendered[c].defer
              /\ k # Undefined /\ Exists(records[k])
              /\ ~\E op \in ops : op.closure.cacheKey = k )
            => /\ record[c].response = records[k].response
               /\ record[c].error = records[k].error

\* the consumers in the subscriber list of key k
Range(seq) == {seq[n] : n \in 1..Len(seq)}

\* the mounted consumers bound to key k
BoundTo(k) == {c \in Consumers : Mounted(c) /\ rendered[c].cacheKey = k}

\* C6 as it is stated: the list of K holds every mounted consumer bound to K
C6_SubscribersAreTheBoundConsumers ==
    \A k \in Keys :
        /\ Range(updaters[k]) = BoundTo(k)
        /\ Len(updaters[k]) = Cardinality(BoundTo(k))

(* C6: in every reachable state the subscriber list of each cache key K    *)
(* contains exactly the mounted consumers bound to K that are not deferred, *)
(* each exactly once; a consumer whose key changed is in the list of its    *)
(* new key only, and an unmounted consumer is in no list.                   *)
C6_SubscribersAreTheBoundNonDeferred ==
    \A k \in Keys :
        /\ Range(updaters[k]) = {c \in BoundTo(k) : ~rendered[c].defer}
        /\ Len(updaters[k]) = Cardinality({c \in BoundTo(k) : ~rendered[c].defer})

\* C6's case: consumer 1, mounted with the context "a", is now bound to the
\* key of the context "b" and subscribed to it, and consumer 2 was unmounted
C6_KeyChangedAndUnmounted ==
    /\ Mounted(1) /\ rendered[1].cacheKey = "b.[1]"
    /\ 1 \in Range(updaters["b.[1]"])
    /\ phase[2] = "unmounted"

\* op is current for a consumer that shows a response
CurrentWithResponse(op) == CurrentFor(op) /\ record[op.inst].response # Undefined

\* C7 as it is stated: the rejection leaves the response where it was, in the
\* consumer and in the cache
C7_RejectionKeepsResponse ==
    [][\A op \in ops, e \in Errors :
          (CurrentWithResponse(op) /\ Reject(op, e)) =>
              /\ record'[op.inst].response = record[op.inst].response
              /\ records'[op.closure.cacheKey].response = record[op.inst].response]_vars

(* C7: when a consumer that shows a response has its current operation     *)
(* reject with error e, the consumer's record becomes REJECTED with error   *)
(* e and no response, and so does the cache record of its key: the earlier  *)
(* response is cleared.                                                     *)
C7_RejectionClearsResponse ==
    [][\A op \in ops, e \in Errors :
          (CurrentWithResponse(op) /\ Reject(op, e)) =>
              /\ record'[op.inst] = [state |-> REJECTED, response |-> Undefined,
                                     error |-> e, isCached |-> TRUE]
              /\ records'[op.closure.cacheKey].state = REJECTED
              /\ records'[op.closure.cacheKey].response = Undefined
              /\ records'[op.closure.cacheKey].error = e]_vars

\* C7's case: the deferred consumer b shows the response r1 of its own load,
\* which the cache and consumer a held too, and a load of a rejected since
C7_RejectedAfterResponse ==
    \E a, b \in Consumers :
        /\ a # b /\ Mounted(a) /\ ~rendered[a].defer
        /\ rendered[b].defer /\ record[b].state = RESOLVED /\ record[b].response = "r1"
        /\ record[a].state = REJECTED /\ record[a].response = Undefined
        /\ record[a].error = "e1"
        /\ records[rendered[a].cacheKey].state = REJECTED

\* the slow timer t of consumer c belongs to c's latest load, which is outstanding
SlowForCurrent(c, t) ==
    /\ Mounted(c)
    /\ t.id = counter[c]
    /\ \E op \in ops : op.inst = c /\ op.count = t.id

(* C8: when the slow threshold of an outstanding, current load elapses,    *)
(* the consumer's state becomes PENDING_SLOW if the load was a fresh        *)
(* pending load and RELOADING_SLOW if it was a reload.                      *)
C8_SlowVariantShown ==
    [][\A c \in Consumers : \A t \in timers[c] :
          (SlowForCurrent(c, t) /\ SlowFire(c, t)) =>
              record'[c].state = IF t.isReloading THEN RELOADING_SLOW ELSE PENDING_SLOW]_vars

(* C9: while a consumer is deferred (defer is true, or its variables        *)
(* function throws), its operation is invoked by a manual load only: a step *)
(* that invokes the operation of a deferred consumer is a manual load.      *)
C9_DeferredInvokedManuallyOnly ==
    [][\A c \in Consumers :
          (DeferOf(c, props[c]) /\ calls'[c] # calls[c]) => ManualLoad(c, NotGiven)]_vars

(* C10: when the retry timer of a rejected load fires while the consumer   *)
(* is mounted on the key of that load, the operation is invoked again,      *)
(* with the arguments of the failed invocation.                             *)
C10_RetryInvokesAgain ==
    [][\A c \in Consumers : \A t \in timers[c] :
          ( /\ Mounted(c)
            /\ rendered[c].cacheKey = t.closure.cacheKey
            /\ RetryFire(c, t) )
          => \E op \in ops' \ ops : op.inst = c /\ op.args = t.args]_vars

\* a retry has been scheduled
Scheduled == retry # NoRetry

(* C11: for a numeric rejectRetryInterval I the delay of the retry scheduled *)
(* after a rejection satisfies 0.5 * 2^n * I <= delay < 1.5 * 2^n * I with   *)
(* n = min(attempt, 8), attempt being the consumer's count of loads at the   *)
(* rejection: the factor is at most 2^8.                                     *)
C11_RetryDelayInBackoffWindow ==
    Scheduled =>
        LET n == IF retry.attempt < 8 THEN retry.attempt ELSE 8
        IN  /\ ShiftLeft(n) * retry.interval <= 2 * retry.timeout
            /\ 2 * retry.timeout < 3 * ShiftLeft(n) * retry.interval
            /\ 2 * retry.timeout < 3 * 256 * retry.interval

\* C11's case: a retry scheduled after more than 8 loads, with the largest
\* delay the cap allows
C11_CappedDelayScheduled ==
    /\ retry.attempt > 8 /\ retry.interval = 1000
    /\ retry.timeout > 256 * retry.interval

RejectionReturned(c) == returned.operation = "rejected" /\ Cons(returned.inst) = c

(* C13: when the operation rejects with error e, the promise load returned  *)
(* rejects with e if throwError is set and suspense is not, and fulfils in   *)
(* every other configuration; when the load is the latest one of a mounted   *)
(* consumer, the consumer's record becomes REJECTED with error e.            *)
C13_RejectsOnlyWithThrowError ==
    [][\A op \in ops, e \in Errors :
          RejectObserved(op, e) =>
              LET c == Cons(op.inst)
              IN  /\ (cfg[c].throwError /\ ~cfg[c].suspense)
                        => (returned'.outcome = "rejected" /\ returned'.value = e)
                  /\ ~(cfg[c].throwError /\ ~cfg[c].suspense)
                        => returned'.outcome = "fulfilled"
                  /\ (op.inst = c /\ Mounted(c) /\ op.count = counter[c])
                        => (record'[c].state = REJECTED /\ record'[c].error = e)]_vars

\* C13's case: a consumer with throwError and suspense shows the error of its
\* rejected load, and the promise of that load fulfilled
C13_SuspenseSwallowedTheError ==
    \E c \in Consumers :
        /\ cfg[c].throwError /\ cfg[c].suspense /\ Mounted(c)
        /\ RejectionReturned(c) /\ returned.outcome = "fulfilled"
        /\ record[c].state = REJECTED /\ record[c].error = "e1"

\* consumer c has the cache-first policy and is not deferred, and the cache has
\* a record for its key
CacheFirstWithRecord(c) ==
    LET key == KeyOf(c, props[c])
    IN  /\ cfg[c].loadPolicy = CACHE_FIRST
        /\ ~DeferOf(c, props[c])
        /\ key # Undefined
        /\ Exists(records[key])

\* the record of c's key
CachedFor(c) == records[KeyOf(c, props[c])]

MountsOnCached(c) ==
    LET key == KeyOf(c, props[c])
    IN  /\ ~DeferOf(c, props[c]) /\ ~cfg[c].suspense
        /\ cfg[c].revalidateTime = 0
        /\ cfg[c].loadPolicy \in {CACHE_AND_LOAD, CACHE_FIRST}
        /\ key # Undefined /\ Exists(records[key])
        /\ Mount(c)

\* the mount has served the record the cache held
Served(c) ==
    /\ record'[c].response = CachedFor(c).response
    /\ record'[c].error = CachedFor(c).error

\* C15 as it is stated: every such mount invokes the operation once
C15_EveryMountRefetchesOnce ==
    [][\A c \in Consumers :
          MountsOnCached(c) => (Served(c) /\ calls'[c] = calls[c] + 1)]_vars

(* C15: with no cache expiry and revalidateTime = 0, the mount of a         *)
(* non-deferred consumer on a key that has a cached record serves that       *)
(* record to the consumer at once, and invokes the operation exactly once,   *)
(* unless the record is RESOLVED or REJECTED and younger than               *)
(* dedupingInterval: then the mount invokes nothing.                         *)
C15_MountRefetchesOnceUnlessDuplicate ==
    [][\A c \in Consumers :
          MountsOnCached(c) =>
              /\ Served(c)
              /\ calls'[c] = calls[c] +
                     (IF CachedFor(c).state \in {RESOLVED, REJECTED}
                         /\ CachedFor(c).elapsed < DedupingInterval THEN 0 ELSE 1)]_vars

\* C15's case: consumer b mounted on the record the load of a had resolved
\* earlier; b shows that response while its one background load is outstanding
C15_ServedWhileRefetching ==
    \E a, b \in Consumers :
        /\ a # b /\ Mounted(b) /\ cfg[b].revalidateTime = 0
        /\ counter[a] = 1 /\ ops = {op \in ops : op.inst = b}
        /\ counter[b] = 1 /\ calls[b] = 1 /\ ops # {}
        /\ record[b].state = RELOADING /\ record[b].response = "r1"

\* consumer c was created without a context
WithoutKey(c) == KeyOf(c, props[c]) = Undefined

\* consumer c starts a load: its mount, a manual load, a polling tick
LoadOf(c) == Mount(c) \/ ManualLoad(c, NotGiven) \/ PollTick(c, TRUE)

\* a step of consumer c: a load, its unmount, the settling of one of its operations
StepOf(c) == LoadOf(c) \/ Unmount(c) \/ \E op \in ops : Cons(op.inst) = c /\ Settles(op)

(* C16: a consumer created without a context never writes a cache record,   *)
(* an in-flight promise or a suspense flag; each of its loads (mount,        *)
(* manual, polling tick) invokes the operation, so none is deduped or        *)
(* short-circuited; its steps leave the local record of every other          *)
(* consumer as it is, and the steps of the other consumers leave its own.    *)
C16_ConsumerWithoutKeyIsIndependent ==
    [][\A c \in Consumers :
          WithoutKey(c) =>
              /\ LoadOf(c) => calls'[c] = calls[c] + 1
              /\ StepOf(c) =>
                    /\ records' = records /\ promises' = promises /\ suspenders' = suspenders
                    /\ \A b \in Consumers \ {c} : record'[b] = record[b]
              /\ \A b \in Consumers \ {c} : StepOf(b) => record'[c] = record[c]]_vars

\* C16's case: two consumers without a context are mounted; the first shows
\* the response of its second load, made right after the first one fulfilled,
\* the second still waits for its own operation, and the cache is empty
C16_TwoWithoutKey ==
    /\ \A c \in Consumers : Mounted(c) /\ WithoutKey(c)
    /\ counter[1] = 2 /\ calls[1] = 2
    /\ record[1].state = RESOLVED /\ record[1].response = "r2"
    /\ record[2].state = PENDING /\ \E op \in ops : op.inst = 2
    /\ \A k \in Keys : ~Exists(records[k]) /\ promises[k] = NoPromise

\* key k keeps its record, its in-flight promise and its suspense flag in this step
KeyUntouched(k) ==
    /\ records'[k] = records[k]
    /\ promises'[k] = promises[k]
    /\ suspenders'[k] = suspenders[k]

\* every key but K is untouched
OnlyTouches(K) == \A k \in Keys \ {K} : KeyUntouched(k)

\* the key an optimistic update of op commits to
CommitKey(op, target) ==
    LET key == OptimisticCacheKey(Cons(op.inst), op.closure.cacheKey, target)
    IN  IF key = Undefined THEN op.closure.cacheKey ELSE key

(* C17: a commit for cache key K - the loading transition of a mount or of  *)
(* a key change, a completion, an optimistic update, and the broadcast each  *)
(* of them sends - leaves the record, the in-flight promise and the          *)
(* suspense flag of every other key unchanged.                               *)
C17_CommitTouchesItsKeyOnly ==
    [][/\ \A c \in Consumers :
            /\ Mount(c) => OnlyTouches(KeyOf(c, props[c]))
            /\ \A p \in {PropsA, PropsB} : ChangeProps(c, p) => OnlyTouches(KeyOf(c, p))
       /\ \A op \in ops :
            /\ Settles(op) => OnlyTouches(op.closure.cacheKey)
            /\ \A d \in Provisional, t \in Targets :
                  (SetResponse(op, d, t) \/ SetError(op, d, t))
                      => OnlyTouches(CommitKey(op, t))]_vars

\* C17's case: the operation of consumer 1, started for the key "a", has
\* written a provisional response to the key "b" and then fulfilled after its
\* consumer had moved on to "b": both keys hold a record, each its own
C17_BothKeysWritten ==
    /\ Mounted(1) /\ rendered[1].cacheKey = "b"
    /\ records["a"].state = RESOLVED /\ records["a"].response = "r1"
    /\ records["b"].state = RESOLVED /\ records["b"].response = "d1"

(* C18: under the default strategy two consumers with the same context have  *)
(* equal cache keys exactly when their variables are structurally equal:     *)
(* equal variables give equal keys, different variables different keys.      *)
C18_KeysEqualExactlyForEqualVariables ==
    \A c1, c2 \in Consumers :
        ( /\ Mounted(c1) /\ Mounted(c2)
          /\ cfg[c1].cacheStrategy = CONTEXT_AND_VARIABLES
          /\ cfg[c2].cacheStrategy = CONTEXT_AND_VARIABLES
          /\ props[c1].context = props[c2].context )
        => ( rendered[c1].cacheKey = rendered[c2].cacheKey
                <=> props[c1].variables = props[c2].variables )

(* C19: under the context-only strategy two consumers with the same context *)
(* and the variables [1] and [2] are bound to the same cache key, the        *)
(* context, and share its record: whenever the latest load of a mounted      *)
(* consumer fulfils with r, the record of the key becomes RESOLVED with r,   *)
(* whatever the other consumer's load had written there.                     *)
C19_SharedRecordHoldsLastCompletion ==
    [][/\ \A c \in Consumers :
            (Mounted(c) /\ cfg[c].cacheStrategy = CONTEXT_ONLY)
                => rendered[c].cacheKey = props[c].context
       /\ \A op \in ops, r \in Responses :
            (CurrentFor(op) /\ Fulfil(op, r)) =>
                /\ records'[op.closure.cacheKey].state = RESOLVED
                /\ records'[op.closure.cacheKey].response = r]_vars

\* C19's case: the consumers with the variables [1] and [2] are mounted on the
\* key "a", each has invoked its operation once with its own variables, the
\* first load has fulfilled with r1 and the second one is still outstanding
C19_FirstOfTwoCommitted ==
    /\ Mounted(1) /\ Mounted(2)
    /\ props[1].variables # props[2].variables
    /\ rendered[1].cacheKey = "a" /\ rendered[2].cacheKey = "a"
    /\ calls[1] = 1 /\ calls[2] = 1
    /\ ops # {} /\ \A op \in ops : op.inst = 2 /\ op.args.vals = <<2>>
    /\ records["a"].state = RESOLVED /\ records["a"].response = "r1"

\* consumer c, with suspense and not deferred, has not rendered yet, and its
\* key has a record and an in-flight promise
FindsPromise(c) ==
    /\ cfg[c].suspense /\ ~DeferOf(c, props[c]) /\ phase[c] = "init"
    /\ ~WithoutKey(c)
    /\ Exists(CachedFor(c)) /\ promises[KeyOf(c, props[c])] # NoPromise

\* consumer c, with suspense and not deferred, has not rendered yet, and its
\* key has neither a record nor an in-flight promise
FindsNothing(c) ==
    /\ cfg[c].suspense /\ ~DeferOf(c, props[c]) /\ phase[c] = "init"
    /\ ~WithoutKey(c)
    /\ ~Exists(CachedFor(c)) /\ promises[KeyOf(c, props[c])] = NoPromise

\* the invocations of the operation by consumer c, by its committed instance
\* and by the instance of a render that suspended
Invocations(c) == calls[c] + calls[Ghost(c)]

\* no render of c completes in this step and c invokes nothing
StaysSuspended(c) ==
    /\ phase'[c] = "init"
    /\ calls'[c] = calls[c] /\ calls'[Ghost(c)] = calls[Ghost(c)]

\* the first render of c invokes the operation once and is suspended on the
\* promise of that invocation, which is the in-flight promise of the key
LoadsOnceAndSuspends(c) ==
    /\ calls'[Ghost(c)] = calls[Ghost(c)] + 1 /\ calls'[c] = calls[c]
    /\ promises'[KeyOf(c, props[c])] = <<Ghost(c), counter'[Ghost(c)]>>
    /\ \E op \in ops' \ ops : <<op.inst, op.count>> = promises'[KeyOf(c, props[c])]
    /\ phase'[c] = "init"

(* C20: with suspense and without defer, a first render that finds a record *)
(* and an in-flight promise for its key suspends on that promise: it is not  *)
(* committed and invokes nothing; a first render that finds neither a record *)
(* nor an in-flight promise invokes the operation exactly once and suspends  *)
(* on the promise of that invocation, which is the key's in-flight promise.  *)
C20_RenderSuspendsOnThePromise ==
    [][\A c \in Consumers :
          /\ FindsPromise(c) => StaysSuspended(c)
          /\ (FindsNothing(c) /\ Mount(c)) => LoadsOnceAndSuspends(c)]_vars

\* what holds of the suspense read path: the render suspends on the stored
\* promise; a first render that finds no record suspends on the promise of its
\* own load when the consumer has no initialResponse, and is committed without
\* an in-flight promise when it has one
SuspendsUnlessSeeded ==
    [][\A c \in Consumers :
          /\ FindsPromise(c) => StaysSuspended(c)
          /\ (FindsNothing(c) /\ cfg[c].initialResponse = Undefined /\ Mount(c))
                => LoadsOnceAndSuspends(c)
          /\ (FindsNothing(c) /\ cfg[c].initialResponse # Undefined /\ Mount(c))
                => /\ promises'[KeyOf(c, props[c])] = NoPromise
                   /\ phase'[c] = "mounted"
                   /\ Invocations(c)' = Invocations(c) + 2]_vars

\* the key of consumer c has no record younger than the deduping interval
OutsideDeduping(c) ==
    LET rec == RecordsGet(World, rendered[c].cacheKey)
    IN  ~Exists(rec) \/ rec.elapsed >= DedupingInterval

\* consumer c is one the interval timer of useInterval ticks for, and the tick
\* gets past the test of the document's visibility
Ticking(c, visible) ==
    Mounted(c) /\ cfg[c].pollingInterval /\ (visible \/ cfg[c].pollWhenHidden)

\* the state after the tick's task: the callback's load()() and the re-renders
\* (a tick whose load is a no-op leaves the state as it is)
AfterTick(c) == Rerender(load(World, c, rendered[c], FALSE, NotGiven))

(* C21: every polling tick of a mounted, non-deferred consumer that falls   *)
(* outside the deduping interval, with the document visible or with         *)
(* pollWhenHidden, invokes the operation once, with or without variables.   *)
C21_EveryTickInvokes ==
    \A c \in Consumers, visible \in BOOLEAN :
        (Ticking(c, visible) /\ ~rendered[c].defer /\ OutsideDeduping(c))
            => AfterTick(c).calls[c] = calls[c] + 1

\* what holds instead: such a tick invokes the operation once when the consumer
\* has no variables and changes nothing when it has
TickInvokesUnlessVariables ==
    \A c \in Consumers, visible \in BOOLEAN :
        (Ticking(c, visible) /\ ~rendered[c].defer /\ OutsideDeduping(c))
            => IF Truthy(rendered[c].variables)
               THEN AfterTick(c) = World
               ELSE AfterTick(c).calls[c] = calls[c] + 1

\* and no tick gets to load while the document is hidden unless pollWhenHidden
\* is set
HiddenTickNeedsPollWhenHidden ==
    [][\A c \in Consumers : PollTick(c, FALSE) => cfg[c].pollWhenHidden]_vars

\* the mounted, non-deferred consumers bound to key k: its subscribers
SubscribersOf(k) ==
    {b \in Consumers : Mounted(b) /\ ~rendered[b].defer /\ rendered[b].cacheKey = k}

\* after the step the cache record of key k is in one of `family` with response d
CacheHolds(k, family, d) == records'[k].state \in family /\ records'[k].response = d

\* after the step the local record of consumer b is in one of `family` with response d
LocalHolds(b, family, d) == record'[b].state \in family /\ record'[b].response = d

\* after the step key k, consumer a and every subscriber of k other than a are
\* RESOLVED with d
AllResolvedWith(k, a, d) ==
    /\ CacheHolds(k, {RESOLVED}, d)
    /\ LocalHolds(a, {RESOLVED}, d)
    /\ \A b \in SubscribersOf(k) \ {a} : LocalHolds(b, {RESOLVED}, d)

\* C22 as it is stated: whenever an outstanding operation of a mounted consumer
\* calls setResponse(d) for its own key, during its invocation or later, the
\* key's record, the caller and the subscribers become RESOLVED with d
C22_SetResponseResolvesAll ==
    [][/\ \A op \in ops, d \in Provisional :
            (Mounted(op.inst) /\ SetResponse(op, d, NoTarget))
                => AllResolvedWith(op.closure.cacheKey, op.inst, d)
       /\ \A c \in Consumers, d \in Provisional :
            OptimisticLoad(c, d) => AllResolvedWith(rendered[c].cacheKey, c, d)]_vars

(* C22: when the operation of the current load of a mounted consumer calls  *)
(* setResponse(d) for its own key K, K's record, the caller and every other *)
(* subscriber of K hold the response d before the operation settles: all    *)
(* with the state RESOLVED when the call comes after load has returned;     *)
(* when the call comes during the invocation the subscribers are RESOLVED   *)
(* and K's record and the caller are PENDING or RELOADING with d.  When the *)
(* operation, still current, then fulfils with r, all are RESOLVED with r.  *)
C22_SetResponseShowsDataUntilFulfilled ==
    [][/\ \A op \in ops, d \in Provisional :
            (CurrentFor(op) /\ SetResponse(op, d, NoTarget))
                => AllResolvedWith(op.closure.cacheKey, op.inst, d)
       /\ \A c \in Consumers, d \in Provisional :
            OptimisticLoad(c, d) =>
                /\ CacheHolds(rendered[c].cacheKey, {PENDING, RELOADING}, d)
                /\ LocalHolds(c, {PENDING, RELOADING}, d)
                /\ \A b \in SubscribersOf(rendered[c].cacheKey) \ {c} :
                       LocalHolds(b, {RESOLVED}, d)
       /\ \A op \in ops, r \in Responses :
            (CurrentFor(op) /\ Fulfil(op, r))
                => AllResolvedWith(op.closure.cacheKey, op.inst, r)]_vars

\* C22's case: the operation of consumer 1 has called setResponse("d1") and is
\* outstanding; consumer 1 and the key hold d1 while loading, the subscriber
\* shows d1 as RESOLVED
C22_ProvisionalShown ==
    /\ Mounted(1) /\ Mounted(2)
    /\ \E op \in ops : op.inst = 1 /\ op.count = counter[1]
    /\ record[1].response = "d1" /\ record[1].state \in {PENDING, RELOADING}
    /\ records["a"].response = "d1"
    /\ record[2].state = RESOLVED /\ record[2].response = "d1"

\* the state the first render of consumer c returns: the initial state of its
\* reducer, computed from the cache as the mount finds it
FirstRendered(c) == InitialRecord(c, DeferOf(c, props[c]), Render(World, c, TRUE).memo)

\* consumer c is mounted in this step, and its first render is committed
Mounts(c) == Mount(c) /\ phase'[c] = "mounted"

\* C23 as it is stated: the seed whenever there is one, otherwise IDLE or PENDING
C23_FirstStateFromSeedAndDefer ==
    [][\A c \in Consumers :
          Mounts(c) =>
              IF cfg[c].initialResponse # Undefined
              THEN /\ FirstRendered(c).state = RESOLVED
                   /\ FirstRendered(c).response = cfg[c].initialResponse
              ELSE FirstRendered(c).state = IF DeferOf(c, props[c]) THEN IDLE ELSE PENDING]_vars

\* the record the cache holds for the key of consumer c as it mounts
CachedAtMount(c) == RecordsGet(World, KeyOf(c, props[c]))

(* C23: the first rendered state of a consumer that is not deferred and     *)
(* whose key has a record in the cache is that record; otherwise it is      *)
(* RESOLVED with the seed when an initialResponse is supplied, and without  *)
(* one IDLE when the load is deferred and PENDING when it is not.  A        *)
(* deferred consumer still shows that state when its mount is over.         *)
C23_FirstStateFromCacheSeedAndDefer ==
    [][\A c \in Consumers :
          Mounts(c) =>
              /\ IF Exists(CachedAtMount(c)) /\ ~DeferOf(c, props[c])
                 THEN /\ FirstRendered(c).state = CachedAtMount(c).state
                      /\ FirstRendered(c).response = CachedAtMount(c).response
                      /\ FirstRendered(c).error = CachedAtMount(c).error
                 ELSE IF cfg[c].initialResponse # Undefined
                 THEN /\ FirstRendered(c).state = RESOLVED
                      /\ FirstRendered(c).response = cfg[c].initialResponse
                 ELSE /\ FirstRendered(c).state = IF DeferOf(c, props[c]) THEN IDLE ELSE PENDING
                      /\ FirstRendered(c).response = Undefined
              /\ DeferOf(c, props[c]) =>
                    /\ record'[c].state = FirstRendered(c).state
                    /\ record'[c].response = FirstRendered(c).response]_vars

\* C23's case: the seeded consumer 2 has mounted on a key whose record was
\* RESOLVED with r1, and shows r1 and not its seed
C23_MountedOnCachedRecord ==
    /\ Mounted(2) /\ calls[2] = 0 /\ cfg[2].initialResponse = "r2" /\ ~cfg[2].defer
    /\ record[2].state = RESOLVED /\ record[2].response = "r1"

(* C24: for every mounted consumer at least one of isIdle, isPending,       *)
(* isResolved, isRejected, isReloading is true; isResolved and isRejected   *)
(* are not both true; isPending is not true together with isIdle or with    *)
(* isResolved.                                                              *)
C24_FlagsCoverAndExclude ==
    \A c \in Consumers :
        Mounted(c) =>
            LET f == states(record[c])
            IN  /\ f.isIdle \/ f.isPending \/ f.isResolved \/ f.isRejected \/ f.isReloading
                /\ ~(f.isResolved /\ f.isRejected)
                /\ ~(f.isPending /\ f.isIdle)
                /\ ~(f.isPending /\ f.isResolved)

\* C24's case: a consumer whose state is PENDING or RELOADING next to a
\* response it holds counts as resolved and not as pending; and a consumer that
\* is PENDING next to a falsy response counts as pending
C24_LoadingWithResponse ==
    \E c \in Consumers :
        /\ Mounted(c)
        /\ record[c].state \in {PENDING, PENDING_SLOW, RELOADING, RELOADING_SLOW}
        /\ record[c].response = "d1"
        /\ states(record[c]).isResolved /\ ~states(record[c]).isPending

\* the operation op of a consumer with a key
Keyed(op) == op.inst \in Consumers /\ op.closure.cacheKey # Undefined

\* op is the latest load of its consumer, and the consumer is mounted
Latest(op) == Mounted(op.inst) /\ op.count = counter[op.inst]

\* after the step the cache record of key k and the local record of every
\* subscriber of k other than a hold the outcome
Committed(k, a, state, response, error) ==
    /\ records'[k].state = state
    /\ records'[k].response = response
    /\ records'[k].error = error
    /\ \A b \in SubscribersOf(k) \ {a} :
          /\ record'[b].state = state
          /\ record'[b].response = response
          /\ record'[b].error = error

SettledPromise(k) ==
    /\ promises[k] # NoPromise
    /\ ~\E op \in ops : <<op.inst, op.count>> = promises[k]

(* C26: no key's in-flight promise handle holds the promise of an operation *)
(* that has settled, and no consumer's render is suspended on one.          *)
C26_NoSettledPromiseRegistered ==
    /\ \A k \in Keys : ~SettledPromise(k)
    /\ \A c \in Consumers :
          (phase[c] # "unmounted" /\ WouldSuspend(World, c)) => ~SettledPromise(KeyOf(c, props[c]))

\* what holds instead: the completion of the latest load of a mounted consumer
\* clears the promise handle of its key
LatestCompletionClearsPromise ==
    [][\A op \in ops :
          (Keyed(op) /\ Latest(op) /\ Settles(op)) => promises'[op.closure.cacheKey] = NoPromise]_vars

\* the state after the task of a manual load of consumer c
AfterManual(c) == Rerender(load(World, c, rendered[c], TRUE, NotGiven))

\* C27 as it is stated: an automatic load of a consumer whose parameters are
\* those of its previous render changes nothing, with or without variables
C27_UnchangedParametersSuppress ==
    \A c \in Consumers :
        (Mounted(c) /\ rendered[c].isSameVariables) => AfterTick(c) = World

(* C27: an automatic load of a consumer that has variables, unchanged since *)
(* its previous render, changes nothing: not the counter, not the cache,    *)
(* not the number of invocations.  An automatic load of a consumer without  *)
(* variables is not suppressed (it advances the counter), and neither is a  *)
(* manual load, with or without variables.                                  *)
C27_UnchangedVariablesSuppress ==
    \A c \in Consumers :
        Mounted(c) =>
            /\ (Truthy(rendered[c].variables) /\ rendered[c].isSameVariables)
                  => AfterTick(c) = World
            /\ ~Truthy(rendered[c].variables)
                  => AfterTick(c).counter[c] = counter[c] + 1
            /\ AfterManual(c).counter[c] = counter[c] + 1

\* C27's case: the consumer with variables is mounted, its first load has
\* resolved and the record has aged past the deduping interval, so that only
\* the suppression keeps an automatic load from running; the consumer without
\* variables has polled
C27_SuppressedWhileStale ==
    /\ Mounted(2) /\ Truthy(rendered[2].variables) /\ rendered[2].isSameVariables
    /\ records["a.[1]"].state = RESOLVED /\ records["a.[1]"].elapsed >= DedupingInterval
    /\ AfterTick(2) = World
    /\ Mounted(1) /\ counter[1] > 1 /\ calls[1] > 1

\* op is the only operation its consumer has executed so far: every other load
\* of the consumer returned without invoking the operation
OnlyExecuted(op) == op.inst \in Consumers /\ Mounted(op.inst) /\ calls[op.inst] = 1

\* after the step consumer a and the cache record of key k hold the outcome
Applied(k, a, state, response, error) ==
    /\ record'[a].state = state /\ record'[a].response = response /\ record'[a].error = error
    /\ records'[k].state = state /\ records'[k].response = response /\ records'[k].error = error

(* C28: a load that returns without executing the operation does not       *)
(* supersede the outstanding operation of its consumer: when the only       *)
(* operation a mounted consumer has executed settles, its outcome is        *)
(* applied to the consumer's local state and committed to the cache.        *)
C28_SkippedLoadDoesNotSupersede ==
    [][\A op \in ops :
          (Keyed(op) /\ OnlyExecuted(op)) =>
              /\ \A r \in Responses :
                    Fulfil(op, r) => Applied(op.closure.cacheKey, op.inst, RESOLVED, r, Undefined)
              /\ \A e \in Errors :
                    Reject(op, e) => Applied(op.closure.cacheKey, op.inst, REJECTED, Undefined, e)]_vars

\* the second half of C28: a mounted consumer whose only executed operation has
\* settled is not in a PENDING or RELOADING state
SettledConsumerNotLoading ==
    \A c \in Consumers :
        (Mounted(c) /\ calls[c] = 1 /\ ~\E op \in ops : op.inst = c)
            => record[c].state \notin {PENDING, PENDING_SLOW, RELOADING, RELOADING_SLOW}

\* what holds instead: the outcome is applied and committed when no load of the
\* consumer, executed or not, came after the operation
UnsupersededCompletionApplied ==
    [][\A op \in ops :
          (Keyed(op) /\ Latest(op)) =>
              /\ \A r \in Responses :
                    Fulfil(op, r) => Applied(op.closure.cacheKey, op.inst, RESOLVED, r, Undefined)
              /\ \A e \in Errors :
                    Reject(op, e) => Applied(op.closure.cacheKey, op.inst, REJECTED, Undefined, e)]_vars

\* the cache record of key k is written with an outcome in this step
Commits(k) == records'[k] # records[k] /\ records'[k].state \in {RESOLVED, REJECTED}

(* C29: a load is short-circuited only for a consumer with suspense whose   *)
(* key has its suspense flag set, and the short-circuit clears the flag;    *)
(* the flag becomes set only in a step that commits to a key whose flag was *)
(* never set, and once cleared it stays cleared; so at most one load per    *)
(* key is ever short-circuited.                                             *)
C29_OneShortCircuitPerKey ==
    [][\A k \in Keys :
          /\ shorted'[k] > shorted[k] =>
                /\ suspenders[k] = "true" /\ suspenders'[k] = "false"
                /\ \E c \in Consumers : cfg[c].suspense /\ KeyOf(c, props[c]) = k
          /\ (suspenders'[k] = "true" /\ suspenders[k] # "true") =>
                suspenders[k] = Undefined /\ Commits(k)
          /\ suspenders[k] # Undefined => suspenders'[k] # Undefined
          /\ shorted'[k] <= 1]_vars

\* C29's case: the one load of consumer 1 was short-circuited; the operation
\* that committed first was invoked by the render React threw away
C29_MountShortCircuited ==
    /\ Mounted(1) /\ shorted["a"] = 1 /\ suspenders["a"] = "false"
    /\ counter[1] >= 1 /\ calls[1] = counter[1] - 1


\* the record a fulfilled operation commits (line 970)
CompletionRecord(r) == [state |-> RESOLVED, response |-> r, error |-> Undefined]

\* the state as the consumer of op has committed the outcome r (lines 814-833)
\* and is about to broadcast it
CommittedBy(op, r) ==
    handleDataLocal([World EXCEPT !.ops = @ \ {op}], op.inst, op.closure.cacheKey,
                    op.count, CompletionRecord(r))

\* the state as broadcastChanges has delivered it (lines 835-837)
DeliveredAfter(op, r) ==
    LET w == CommittedBy(op, r)
        k == op.closure.cacheKey
    IN  broadcastChanges(w, w.updaters[k], k, CompletionRecord(r))

\* the completion of op is committed and broadcast to at least one subscriber
Broadcasts(op) ==
    /\ op.closure.cacheKey # Undefined
    /\ IsCurrent(World, op.inst, op.count)
    /\ updaters[op.closure.cacheKey] # <<>>

\* C30: delivering a broadcast for a key calls each subscriber of the key once,
\* pushes the record into its local state, invokes no operation, and leaves the
\* key's suspense flag and promise handle as the committing consumer left them
C30_BroadcastLeavesFlagAndPromise ==
    \A op \in ops, r \in Responses :
        Broadcasts(op) =>
            LET k == op.closure.cacheKey
                before == CommittedBy(op, r)
                after == DeliveredAfter(op, r)
            IN  /\ after.calls = before.calls
                /\ after.ops = before.ops
                /\ after.suspenders[k] = before.suspenders[k]
                /\ after.promises[k] = before.promises[k]

\* what does hold of the delivery: no subscriber is registered twice, every
\* mounted subscriber's local record becomes the record, no operation is invoked,
\* no count moves, the cache record and the promise handle stay as committed,
\* and the flag of the key is cleared
BroadcastPushesRecordAndClearsFlag ==
    \A op \in ops, r \in Responses :
        Broadcasts(op) =>
            LET k == op.closure.cacheKey
                before == CommittedBy(op, r)
                after == DeliveredAfter(op, r)
                list == before.updaters[k]
            IN  /\ \A m, n \in 1..Len(list) : list[m] = list[n] => m = n
                /\ \A n \in 1..Len(list) :
                      before.hasMounted[list[n]] =>
                          /\ after.record[list[n]].state = RESOLVED
                          /\ after.record[list[n]].response = r
                /\ \A c \in Consumers :
                      (\A n \in 1..Len(list) : list[n] # c) => after.record[c] = before.record[c]
                /\ after.calls = before.calls
                /\ after.ops = before.ops
                /\ after.counter = before.counter
                /\ after.updaters = before.updaters
                /\ after.records[k].state = before.records[k].state
                /\ after.records[k].response = before.records[k].response
                /\ after.promises = before.promises
                /\ after.shorted = before.shorted
                /\ (\E n \in 1..Len(list) : before.hasMounted[list[n]]) =>
                      after.suspenders[k] = "false"


\* the mounted, non-deferred consumers with revalidateOnWindowFocus bound to key k
RevalidatingOn(k) ==
    {c \in Consumers : /\ Mounted(c)
                       /\ cfg[c].revalidateOnWindowFocus
                       /\ ~rendered[c].defer
                       /\ rendered[c].cacheKey = k}

\* C31: while a mounted, non-deferred consumer with revalidateOnWindowFocus is
\* bound to a key, a revalidator of such a consumer is registered for the key;
\* the teardown of another consumer of the key does not remove it
C31_RevalidatorWhileBound ==
    \A k \in Keys : RevalidatingOn(k) # {} => revalidators[k].owner \in RevalidatingOn(k)

\* what does hold: a registered revalidator belongs to a mounted consumer of the
\* key with revalidateOnWindowFocus, and a key with a single such consumer has
\* its revalidator registered for as long as the consumer is mounted
RevalidatorOfBoundOrNone ==
    \A k \in Keys :
        /\ revalidators[k].owner # 0 => revalidators[k].owner \in RevalidatingOn(k)
        /\ (\E c \in Consumers : RevalidatingOn(k) = {c}
                                 /\ \A b \in Consumers \ {c} : ~cfg[b].revalidateOnWindowFocus)
              => revalidators[k].owner \in RevalidatingOn(k)

\* the teardown of a consumer with revalidateOnWindowFocus removes the
\* revalidator of its key, whoever registered it
TeardownDeletesRevalidator ==
    [][\A c \in Consumers :
          (Unmount(c) /\ cfg[c].revalidateOnWindowFocus /\ ~rendered[c].defer)
              => revalidators'[rendered[c].cacheKey].owner = 0]_vars


\* the step invokes the operation for a load of consumer c
Invoked(c) == calls'[c] = calls[c] + 1

\* before the step consumer c holds data for its key: a response of its own, an
\* initial response, or a cache record of the key with a response
HeldData(c) ==
    LET k == KeyOf(c, props[c])
    IN  \/ record[c].response # Undefined
        \/ cfg[c].initialResponse # Undefined
        \/ (k # Undefined /\ Exists(records[k]) /\ records[k].response # Undefined)

\* C32: a load enters the RELOADING family only when the consumer holds prior
\* data for the key; a load with no prior data, such as the retry after a first
\* load that rejected, enters the PENDING family
C32_ReloadingOnlyWithPriorData ==
    [][\A c \in Consumers :
          (Invoked(c) /\ ~HeldData(c)) => record'[c].state \in {PENDING, PENDING_SLOW}]_vars

\* the claim's own example: the retry of a consumer without data
RetryWithoutDataIsPending ==
    [][\A c \in Consumers :
          ((\E t \in timers[c] : RetryFire(c, t)) /\ Invoked(c) /\ ~HeldData(c))
              => record'[c].state \in {PENDING, PENDING_SLOW}]_vars

\* what does hold of a consumer whose key does not change (line 954): the load
\* enters the RELOADING family exactly when it is not the first call of load on
\* the instance, or the load read a cache record of the key, whatever its state,
\* or an initial response is configured
ReloadingUnlessFirstAndUncached ==
    [][\A c \in Consumers :
          Invoked(c) =>
              LET k == KeyOf(c, props[c])
                  cached == k # Undefined /\ cfg[c].loadPolicy # LOAD_ONLY /\ Exists(records[k])
                  isReloading == counter[c] > 0 \/ cached \/ cfg[c].initialResponse # Undefined
              IN  IF isReloading THEN record'[c].state \in {RELOADING, RELOADING_SLOW}
                  ELSE record'[c].state \in {PENDING, PENDING_SLOW}]_vars

\* and of a consumer whose key changes: the load of the render that changed the
\* key is made with isSameContext false and enters the PENDING family, its
\* dispatch renders the consumer again with isSameContext true, the load effect
\* runs once more, and that second load enters the RELOADING family: the task
\* ends with two invocations and the consumer in RELOADING, with or without data
KeyChangeLoadEndsReloading ==
    [][\A c \in Consumers, p \in {PropsA, PropsB} :
          (ChangeProps(c, p) /\ calls'[c] > calls[c] /\ KeyOf(c, p) # KeyOf(c, props[c]))
              => /\ calls'[c] = calls[c] + 2
                 /\ record'[c].state \in {RELOADING, RELOADING_SLOW}]_vars


\* the operation of the invocation that armed timer t on instance i is outstanding
Outstanding(i, t) == \E op \in ops : op.inst = i /\ op.count = t.id

\* the step applies a completion of op to its consumer (the guard of line 814)
Applies(op) ==
    /\ IsCurrent(World, op.inst, op.count)
    /\ \/ \E r \in Responses : Fulfil(op, r)
       \/ \E e \in Errors : Reject(op, e)

\* C33: with a delay, a load whose operation settles before the delay has
\* elapsed never puts the consumer into a loading state for that invocation (the
\* delay timer that fires is the timer of an outstanding operation), and once a
\* completion has been applied no delay or slow timer of its invocation is left
C33_SettledBeforeDelayNeverLoading ==
    [][/\ \A i \in Insts : \A t \in timers[i] : DelayFire(i, t) => Outstanding(i, t)
       /\ \A op \in ops :
             Applies(op) => \A t \in timers'[op.inst] :
                                t.kind \in {"delay", "slow"} => t.id # op.count]_vars

\* what does hold: an applied completion disarms the delay and slow timers of its
\* own invocation, and a timer's id is never armed again
AppliedCompletionDisarmsItsTimers ==
    [][/\ \A op \in ops :
             Applies(op) => \A t \in timers'[op.inst] :
                                t.kind \in {"delay", "slow"} => t.id # op.count
       /\ \A i \in Insts : \A t \in timers'[i] \ timers[i] : t.id > counter[i]]_vars

\* the same with a single timer: the delay timer of the only invocation of an
\* instance fires after its operation has settled, when a skipped load moved the
\* count in between and the completion was dropped
OnlyTimerFiresWhileOutstanding ==
    [][\A i \in Insts : \A t \in timers[i] :
          (DelayFire(i, t) /\ calls[i] = 1) => Outstanding(i, t)]_vars

\* the timers of an invocation whose completion was dropped stay armed: the
\* consumer can end in a loading state with nothing outstanding and nothing armed
NoLoadingWithNothingOutstanding ==
    \A c \in Consumers :
        (Mounted(c) /\ ops = {} /\ timers[c] = {})
            => record[c].state \notin {PENDING, PENDING_SLOW, RELOADING, RELOADING_SLOW}


\* the optimistic update of op names a key other than the key of its load
NamesOtherKey(op, t) ==
    /\ t.present
    /\ OptimisticCacheKey(Cons(op.inst), op.closure.cacheKey, t) # Undefined
    /\ OptimisticCacheKey(Cons(op.inst), op.closure.cacheKey, t) # op.closure.cacheKey

\* C34: a setResponse that names another context / variables pair writes the
\* provisional record to that key's cache record, every consumer subscribed to
\* that key observes it, and the caller's local state and the record of the
\* caller's own key are unchanged
C34_NamedKeyWrittenAndObserved ==
    [][\A op \in ops, d \in Provisional, t \in Targets :
          (SetResponse(op, d, t) /\ NamesOtherKey(op, t)) =>
              LET other == CommitKey(op, t)
              IN  /\ CacheHolds(other, {RESOLVED}, d)
                  /\ \A b \in SubscribersOf(other) : LocalHolds(b, {RESOLVED}, d)
                  /\ record'[Cons(op.inst)] = record[Cons(op.inst)]
                  /\ op.closure.cacheKey # Undefined
                        => records'[op.closure.cacheKey] = records[op.closure.cacheKey]]_vars

\* what does hold: the record is written to the named key's cache record and
\* nothing else happens: no local state changes, the subscribers of the named
\* key included, no record of another key, no promise, flag or count changes
NamedKeyWrittenOnly ==
    [][\A op \in ops, d \in Provisional, t \in Targets :
          (SetResponse(op, d, t) /\ NamesOtherKey(op, t)) =>
              /\ CacheHolds(CommitKey(op, t), {RESOLVED}, d)
              /\ OnlyTouches(CommitKey(op, t))
              /\ promises' = promises /\ suspenders' = suspenders
              /\ record' = record
              /\ ops' = ops /\ calls' = calls /\ counter' = counter
              /\ updaters' = updaters]_vars

====
